---------------------------- MODULE Spec2Model ----------------------------
(***************************************************************************)
(* Rotation subsystem of the SNova math library: Quat, Rotator and the     *)
(* Transform that binds one of each.                                       *)
(*                                                                         *)
(* Numbers.  The program computes on IEEE floats.  The model computes on   *)
(* fixed-point numbers.  A dimensionless value or an angle in radians is   *)
(* the integer n standing for n / One, One = 10^8, about the resolution of *)
(* a float near 1; an angle in degrees is the integer n standing for       *)
(* n / Deg degrees, Deg = 10^6.  Sums are exact, products and quotients    *)
(* round to the nearest unit, and the C library functions sinf, cosf,      *)
(* atan2f, asinf and sqrtf are computed from a one-degree sine table to a  *)
(* few units.  Products are formed limb by limb (base 10^4) so that no     *)
(* intermediate value leaves 32 bits.                                      *)
(***************************************************************************)
EXTENDS Integers, Sequences, FiniteSets, TLC

\* The float 1.0f as a dimensionless value, and 1.0f degree as an angle.
One == 100000000
Deg == 1000000

Abs(a) == IF a < 0 THEN -a ELSE a
Sgn(a) == IF a < 0 THEN -1 ELSE IF a > 0 THEN 1 ELSE 0

\* a * b / One for 0 <= a, 0 <= b, rounded to nearest, by base-10^4 limbs.
MulMag(a, b) ==
    LET a0 == a % 10000
        a1 == (a \div 10000) % 10000
        a2 == a \div 100000000
        b0 == b % 10000
        b1 == (b \div 10000) % 10000
        b2 == b \div 100000000
        p0 == a0 * b0
        p1 == a0 * b1 + a1 * b0
        p2 == a0 * b2 + a1 * b1 + a2 * b0
        p3 == a1 * b2 + a2 * b1
        p4 == a2 * b2
    IN  p4 * 100000000 + p3 * 10000 + p2
            + ((p1 + 5000 + (p0 \div 10000)) \div 10000)

\* float * float: one factor may be an angle in degrees, and then so is
\* the product.
Mul(a, b) == Sgn(a) * Sgn(b) * MulMag(Abs(a), Abs(b))

\* Long division: the next `n` decimal digits of r / d appended to acc.
RECURSIVE DivDigits(_, _, _, _)
DivDigits(r, d, n, acc) ==
    IF n = 0
    THEN IF 2 * r >= d THEN acc + 1 ELSE acc
    ELSE DivDigits((10 * r) % d, d, n - 1, 10 * acc + ((10 * r) \div d))

\* float / float (d # 0, |d| below 2).
Div(n, d) ==
    Sgn(n) * Sgn(d) * DivDigits(Abs(n) % Abs(d), Abs(d), 8, Abs(n) \div Abs(d))

\* a * a / One rounded up, for 0 <= a: a * a <= x * One iff SquareCeil(a) <= x.
SquareCeil(a) ==
    LET a0 == a % 10000
        a1 == (a \div 10000) % 10000
        a2 == a \div 100000000
        p0 == a0 * a0
        p1 == 2 * a0 * a1
        p2 == 2 * a0 * a2 + a1 * a1
        p3 == 2 * a1 * a2
        p4 == a2 * a2
        c1 == p1 + (p0 \div 10000)
        up == IF p0 % 10000 # 0 \/ c1 % 10000 # 0 THEN 1 ELSE 0
    IN  p4 * 100000000 + p3 * 10000 + p2 + (c1 \div 10000) + up

\* Largest s in lo..hi with s * s <= x, by bisection.
RECURSIVE SqrtSearch(_, _, _)
SqrtSearch(x, lo, hi) ==
    IF lo >= hi THEN lo
    ELSE IF SquareCeil((lo + hi + 1) \div 2) <= x
         THEN SqrtSearch(x, (lo + hi + 1) \div 2, hi)
         ELSE SqrtSearch(x, lo, ((lo + hi + 1) \div 2) - 1)

\* sqrtf, for 0 <= x <= 16 (the result is at most 4).
Sqrt(x) == SqrtSearch(x, 0, 4 * One)

\* PI of GenMath.h, in radians: the float nearest to pi is 3.14159274.
PI == 314159274

\* PIOVER180 of GenMath.h, taking an angle in degrees to radians; the
\* factor (PI / 180) / 2 of Rotator::Quaternion, taking it to half of that;
\* OVERPI of GenMath.h, taking radians to degrees (in float arithmetic
\* RAD2DEG takes PI to 180 and PI / 2 to 90 exactly, and so it does here).
\* Each carries the ratio One / Deg of the two units.
PIOVER180 == 174532925
DEG_TO_RAD_DIVIDED_BY_2 == 87266463
OVERPI == 57295778

DEG2RAD(deg) == Mul(deg, PIOVER180)
RAD2DEG(rad) == Mul(rad, OVERPI)

\* round(One * sin(k degrees)), k = 0..90, indexed from 1.
SinTable ==
  <<
     0, 1745241, 3489950, 5233596, 6975647, 8715574,
     10452846, 12186934, 13917310, 15643447, 17364818, 19080900,
     20791169, 22495105, 24192190, 25881905, 27563736, 29237170,
     30901699, 32556815, 34202014, 35836795, 37460659, 39073113,
     40673664, 42261826, 43837115, 45399050, 46947156, 48480962,
     50000000, 51503807, 52991926, 54463904, 55919290, 57357644,
     58778525, 60181502, 61566148, 62932039, 64278761, 65605903,
     66913061, 68199836, 69465837, 70710678, 71933980, 73135370,
     74314483, 75470958, 76604444, 77714596, 78801075, 79863551,
     80901699, 81915204, 82903757, 83867057, 84804810, 85716730,
     86602540, 87461971, 88294759, 89100652, 89879405, 90630779,
     91354546, 92050485, 92718385, 93358043, 93969262, 94551858,
     95105652, 95630476, 96126170, 96592583, 97029573, 97437006,
     97814760, 98162718, 98480775, 98768834, 99026807, 99254615,
     99452190, 99619470, 99756405, 99862953, 99939083, 99984770,
     100000000 >>

\* sin and cos of a whole number of degrees k in 0..359.
SinDegInt(k) ==
    IF k <= 90 THEN SinTable[k + 1]
    ELSE IF k <= 180 THEN SinTable[180 - k + 1]
    ELSE IF k <= 270 THEN -SinTable[k - 180 + 1]
    ELSE -SinTable[360 - k + 1]

CosDegInt(k) == SinDegInt((k + 90) % 360)

\* sin and cos of a small angle d (radians, 0 <= d < 0.02) by their Taylor
\* series.
SinSmall(d) == d - (Mul(Mul(d, d), d) \div 6)
CosSmall(d) == One - (Mul(d, d) \div 2) + (Mul(Mul(d, d), Mul(d, d)) \div 24)

\* v cut to [-1, 1], the range of sinf and cosf.
ClampUnit(v) == IF v > One THEN One ELSE IF v < -One THEN -One ELSE v

\* sin and cos of k whole degrees (k in 0..359) plus d radians (0 <= d < 0.02),
\* by the addition theorems.
SinAt(k, d) ==
    ClampUnit(Mul(SinDegInt(k), CosSmall(d)) + Mul(CosDegInt(k), SinSmall(d)))
CosAt(k, d) ==
    ClampUnit(Mul(CosDegInt(k), CosSmall(d)) - Mul(SinDegInt(k), SinSmall(d)))

\* sin and cos of an angle deg in degrees, 0 <= deg < 360.
SinDeg(deg) == SinAt(deg \div Deg, DEG2RAD(deg % Deg))
CosDeg(deg) == CosAt(deg \div Deg, DEG2RAD(deg % Deg))

\* sinf and cosf (radians).
SinF(rad) == SinDeg(RAD2DEG(rad) % (360 * Deg))
CosF(rad) == CosDeg(RAD2DEG(rad) % (360 * Deg))

\* The largest k in k0..45 with tan(k degrees) <= n / d, given that k0 is one.
RECURSIVE AtanDeg(_, _, _)
AtanDeg(n, d, k0) ==
    IF k0 < 45 /\ Mul(SinDegInt(k0 + 1), d) <= Mul(CosDegInt(k0 + 1), n)
    THEN AtanDeg(n, d, k0 + 1)
    ELSE k0

\* k degrees plus atan(t), t small, in radians.
AtanTail(k, t) == DEG2RAD(k * Deg) + t - (Mul(Mul(t, t), t) \div 3)

\* num / den, the tangent of the remainder; 0 when den = 0.
TanRem(num, den) == IF den = 0 THEN 0 ELSE Div(num, den)

\* atan(n / d) given the whole degrees k below it: the remainder is taken
\* from its tangent (n cos k - d sin k) / (d cos k + n sin k).
AtanRem(n, d, k) ==
    AtanTail(k, TanRem(Mul(n, CosDegInt(k)) - Mul(d, SinDegInt(k)),
                       Mul(d, CosDegInt(k)) + Mul(n, SinDegInt(k))))

\* atan(n / d) in radians for 0 <= n <= d, 1/2 < d <= 1.
AtanScaled(n, d) == AtanRem(n, d, AtanDeg(n, d, 0))

\* atan(n0 / d0) in radians for 0 <= n0 <= d0, 0 < d0: the pair is first
\* scaled so that d is in (1/2, 1] (a float keeps its relative precision
\* whatever its magnitude).
AtanRatio(n0, d0) ==
    IF d0 <= One
    THEN AtanScaled((One \div d0) * n0, (One \div d0) * d0)
    ELSE AtanScaled(n0 \div (((d0 - 1) \div One) + 1),
                    d0 \div (((d0 - 1) \div One) + 1))

\* atan2f(ay, ax) in the first quadrant; atan2f(0, 0) = 0.
AtanQuadrant(ay, ax) ==
    IF ay = 0 /\ ax = 0 THEN 0
    ELSE IF ay <= ax THEN AtanRatio(ay, ax)
    ELSE (PI \div 2) - AtanRatio(ax, ay)

\* The first-quadrant angle phi carried to the quadrant of (x, y).
AtanSigned(y, x, phi) ==
    IF x >= 0
    THEN (IF y >= 0 THEN phi ELSE -phi)
    ELSE (IF y >= 0 THEN PI - phi ELSE phi - PI)

\* atan2f(y, x), radians in [-PI, PI].
Atan2F(y, x) == AtanSigned(y, x, AtanQuadrant(Abs(y), Abs(x)))

\* asinf(v) for |v| <= 1.
AsinF(v) == Atan2F(v, Sqrt(One - Mul(v, v)))

\* 2^n for n >= 0.
Pow2(n) == 2 ^ n

\* The binary exponent e of the float num, 2^e <= num < 2^(e+1), for num
\* from one unit up to 16.
FloatExponent(num) ==
    CHOOSE e \in -27..4 :
        IF e >= 0
        THEN /\ num >= Pow2(e) * One
             /\ (e < 4 => num < Pow2(e + 1) * One)
        ELSE /\ num >= (One + Pow2(-e) - 1) \div Pow2(-e)
             /\ num < (One + Pow2(-e - 1) - 1) \div Pow2(-e - 1)

\* 2^23: the significand of a float has 23 bits.
TwoTo23 == 8388608

\* The 23 bits of the significand sig, 1 <= sig < 2.
Mantissa(sig) ==
    IF MulMag(sig - One, TwoTo23) > TwoTo23 - 1 THEN TwoTo23 - 1
    ELSE MulMag(sig - One, TwoTo23)

\* The bits of the float with exponent e: the biased exponent above the
\* significand.
FloatBitsExp(num, e) ==
    (e + 127) * TwoTo23
        + Mantissa(IF e >= 0 THEN num \div Pow2(e) ELSE num * Pow2(-e))

\* The bits of the float num > 0 read as an integer (conv.f = num; conv.i).
FloatBits(num) == FloatBitsExp(num, FloatExponent(num))

\* The float with exponent e and significand sig.
FloatOf(e, sig) ==
    IF e >= 0 THEN sig * Pow2(e) ELSE (sig + Pow2(-e - 1)) \div Pow2(-e)

\* The float whose bits are the integer i (conv.i = i; conv.f).
BitsFloat(i) == FloatOf((i \div TwoTo23) - 127, One + Div(i % TwoTo23, TwoTo23))

\* The magic number 0x5f3759df of Math::InvSqrt.
InvSqrtMagic == 1597463007

\* The Newton step of Math::InvSqrt: y * (1.5 - x2 * y * y).
InvSqrtStep(x2, y) == Mul(y, ((3 * One) \div 2) - Mul(Mul(x2, y), y))

\* Math::InvSqrt, for num from 1/64 up to 16: the bit-level first guess
\* and one Newton step.
InvSqrt(num) ==
    InvSqrtStep(num \div 2, BitsFloat(InvSqrtMagic - (FloatBits(num) \div 2)))

(***************************************************************************)
(* Values.  A Vec3 is <<x, y, z>>.  A Quat is [w, x, y, z, bound] and a     *)
(* Rotator is [pitch, yaw, roll, bound]; bound is mp_BoundTransform, the   *)
(* number of the Transform it points to, or NullT for nullptr.             *)
(***************************************************************************)
NullT == 0

\* Quat::Quat(float InW, float InX, float InY, float InZ); the member
\* initializer leaves mp_BoundTransform null.
MkQuat(w, x, y, z) == [w |-> w, x |-> x, y |-> y, z |-> z, bound |-> NullT]

\* Rotator::Rotator(float inPitch, float inYaw, float inRoll).
MkRotator(p, y, r) == [pitch |-> p, yaw |-> y, roll |-> r, bound |-> NullT]

\* Quat::Identity and Rotator::ZeroRotator.
Identity == MkQuat(One, 0, 0, 0)
ZeroRotator == MkRotator(0, 0, 0)

\* SMALL_NUMBER (1.e-8f) and KINDA_SMALL_NUMBER (1.e-4f) of GenMath.h as
\* dimensionless values, and KINDA_SMALL_NUMBER as an angle in degrees.
SMALL_NUMBER == 1
KINDA_SMALL_NUMBER == 10000
KINDA_SMALL_NUMBER_DEG == 100

\* fmodf(a, m) for m > 0: the remainder has the sign of a.
FmodF(a, m) == Sgn(a) * (Abs(a) % m)

\* The number of float values per 1/64 degree (15625 units of Deg) at an
\* angle of magnitude mag: a float keeps 24 significant bits, so between
\* 256 and 512 degrees its values are 2^-15 degrees apart, and twice as
\* dense in each binade below.  Below 16 degrees they are denser than the
\* units of Deg.
FloatDensity(mag) ==
    IF mag >= 256 * Deg THEN 512
    ELSE IF mag >= 128 * Deg THEN 1024
    ELSE IF mag >= 64 * Deg THEN 2048
    ELSE IF mag >= 32 * Deg THEN 4096
    ELSE IF mag >= 16 * Deg THEN 8192
    ELSE 0

\* The same above 512 degrees, where floats are 2^-14 degrees apart and
\* more.
FloatDensityWide(mag) ==
    IF mag >= 2048 * Deg THEN 64
    ELSE IF mag >= 1024 * Deg THEN 128
    ELSE IF mag >= 512 * Deg THEN 256
    ELSE FloatDensity(mag)

\* The index of the float value nearest to x >= 0, den values per 15625
\* units.
FloatIndex(x, den) ==
    (x \div 15625) * den + (2 * (x % 15625) * den + 15625) \div (2 * 15625)

\* The float value of index n, in units of Deg.
FloatAt(n, den) ==
    (n \div den) * 15625 + (2 * (n % den) * 15625 + den) \div (2 * den)

\* The float nearest to an angle 0 <= x < 512 degrees: how the float sum
\* of two angles is rounded.
FloatDeg(x) ==
    IF FloatDensity(x) = 0 THEN x
    ELSE FloatAt(FloatIndex(x, FloatDensity(x)), FloatDensity(x))

\* The float nearest to an angle of either sign below 4096 degrees.
FloatAngle(x) ==
    IF FloatDensityWide(Abs(x)) = 0 THEN x
    ELSE Sgn(x) * FloatAt(FloatIndex(Abs(x), FloatDensityWide(Abs(x))),
                          FloatDensityWide(Abs(x)))

\* Rotator::ClampAxis.  fmodf is exact; the sum with 360.f is rounded to a
\* float.
ClampAxis(angle) ==
    LET a == FmodF(angle, 360 * Deg)
    IN  IF a < 0 THEN FloatDeg(a + 360 * Deg) ELSE a

\* Rotator::NormalizeAxis.  Both sums are of floats of opposite sign within
\* a factor of two of each other, which float arithmetic computes exactly.
NormalizeAxis(angle) ==
    LET a == FmodF(angle, 360 * Deg)
    IN  IF a > 180 * Deg THEN a - 360 * Deg
        ELSE IF a < -180 * Deg THEN a + 360 * Deg
        ELSE a

\* Vec3 operator^ (cross product), operator* (dot product), operator+,
\* float * Vec3.
Cross(a, b) == << Mul(a[2], b[3]) - Mul(b[2], a[3]),
                  Mul(a[3], b[1]) - Mul(b[3], a[1]),
                  Mul(a[1], b[2]) - Mul(b[1], a[2]) >>
Dot(a, b) == Mul(a[1], b[1]) + Mul(a[2], b[2]) + Mul(a[3], b[3])
VAdd(a, b) == << a[1] + b[1], a[2] + b[2], a[3] + b[3] >>
VScale(s, a) == << Mul(s, a[1]), Mul(s, a[2]), Mul(s, a[3]) >>

\* Vector3D::Equals.
VecEquals(a, b, tolerance) ==
    /\ Abs(a[1] - b[1]) <= tolerance
    /\ Abs(a[2] - b[2]) <= tolerance
    /\ Abs(a[3] - b[3]) <= tolerance

\* The quaternion of Quat::Quat(Vec3 Axis, float AngleRad) from the sine s
\* and the cosine c of the half angle.
QuatOfAxisSinCos(Axis, s, c) ==
    MkQuat(c, Mul(s, -Axis[3]), Mul(s, -Axis[1]), Mul(s, Axis[2]))

\* Quat::Quat(Vec3 Axis, float AngleRad): half_a = 0.5f * AngleRad.
QuatAxisAngle(Axis, AngleRad) ==
    QuatOfAxisSinCos(Axis, SinF(AngleRad \div 2), CosF(AngleRad \div 2))

\* The quaternion of Rotator::Quaternion from the sines and cosines of the
\* half angles.
QuatOfSinCos(SP, CP, SY, CY, SR, CR) ==
    MkQuat(Mul(Mul(CR, CP), CY) + Mul(Mul(SR, SP), SY),
           Mul(Mul(CR, SP), SY) - Mul(Mul(SR, CP), CY),
           Mul(Mul(-CR, SP), CY) - Mul(Mul(SR, CP), SY),
           Mul(Mul(CR, CP), SY) - Mul(Mul(SR, SP), CY))

\* The quaternion of the half angles hp, hy, hr (radians): Math::SinCos.
QuatOfHalfAngles(hp, hy, hr) ==
    QuatOfSinCos(SinF(hp), CosF(hp), SinF(hy), CosF(hy), SinF(hr), CosF(hr))

\* Rotator::Quaternion.
Quaternion(r) ==
    QuatOfHalfAngles(Mul(r.pitch, DEG_TO_RAD_DIVIDED_BY_2),
                     Mul(r.yaw, DEG_TO_RAD_DIVIDED_BY_2),
                     Mul(r.roll, DEG_TO_RAD_DIVIDED_BY_2))

\* Twice SINGULARITY_THRESHOLD (0.4999995f) of Quat::GetRotator.
SINGULARITY_THRESHOLD_X2 == 99999900

\* A variant of the branches of Quat::GetRotator whose roll away from the
\* poles is taken from 2 (w x + y z) without the change of sign.
GetRotatorBranch_RollSign(q, singularityTest, yaw) ==
    IF 2 * singularityTest < -SINGULARITY_THRESHOLD_X2
    THEN MkRotator(-90 * Deg, yaw,
                   NormalizeAxis(-yaw - RAD2DEG(2 * Atan2F(q.x, q.w))))
    ELSE IF 2 * singularityTest > SINGULARITY_THRESHOLD_X2
    THEN MkRotator(90 * Deg, yaw,
                   NormalizeAxis(yaw - RAD2DEG(2 * Atan2F(q.x, q.w))))
    ELSE MkRotator(RAD2DEG(AsinF(2 * singularityTest)), yaw,
                   RAD2DEG(Atan2F(2 * (Mul(q.w, q.x) + Mul(q.y, q.z)),
                                  One - 2 * (Mul(q.x, q.x) + Mul(q.y, q.y)))))

\* A variant of the branches of Quat::GetRotator that gives the pole
\* branches the pitch of the opposite pole.
GetRotatorBranch_PoleSwap(q, singularityTest, yaw) ==
    IF 2 * singularityTest < -SINGULARITY_THRESHOLD_X2
    THEN MkRotator(90 * Deg, yaw,
                   NormalizeAxis(-yaw - RAD2DEG(2 * Atan2F(q.x, q.w))))
    ELSE IF 2 * singularityTest > SINGULARITY_THRESHOLD_X2
    THEN MkRotator(-90 * Deg, yaw,
                   NormalizeAxis(yaw - RAD2DEG(2 * Atan2F(q.x, q.w))))
    ELSE MkRotator(RAD2DEG(AsinF(2 * singularityTest)), yaw,
                   RAD2DEG(Atan2F(-2 * (Mul(q.w, q.x) + Mul(q.y, q.z)),
                                  One - 2 * (Mul(q.x, q.x) + Mul(q.y, q.y)))))

\* The branches of Quat::GetRotator on singularityTest, yaw being computed.
GetRotatorBranch(q, singularityTest, yaw) ==
    IF 2 * singularityTest < -SINGULARITY_THRESHOLD_X2
    THEN MkRotator(-90 * Deg, yaw,
                   NormalizeAxis(-yaw - RAD2DEG(2 * Atan2F(q.x, q.w))))
    ELSE IF 2 * singularityTest > SINGULARITY_THRESHOLD_X2
    THEN MkRotator(90 * Deg, yaw,
                   NormalizeAxis(yaw - RAD2DEG(2 * Atan2F(q.x, q.w))))
    ELSE MkRotator(RAD2DEG(AsinF(2 * singularityTest)), yaw,
                   RAD2DEG(Atan2F(-2 * (Mul(q.w, q.x) + Mul(q.y, q.z)),
                                  One - 2 * (Mul(q.x, q.x) + Mul(q.y, q.y)))))

\* Quat::GetRotator: singularityTest = z * x - w * y, and the yaw from
\* yawY = 2 (w z + x y) and yawX = 1 - 2 (y y + z z).
GetRotator(q) ==
    GetRotatorBranch(q, Mul(q.z, q.x) - Mul(q.w, q.y),
                     RAD2DEG(Atan2F(2 * (Mul(q.w, q.z) + Mul(q.x, q.y)),
                                    One - 2 * (Mul(q.y, q.y) + Mul(q.z, q.z)))))

\* The rows m2[0], m2[1], m2[2] of Rotator::Matrix from the sines and cosines.
MatrixOfSinCos(SP, CP, SY, CY, SR, CR) ==
    << << Mul(CP, CY), Mul(CP, SY), SP >>,
       << Mul(Mul(SR, SP), CY) - Mul(CR, SY),
          Mul(Mul(SR, SP), SY) + Mul(CR, CY),
          Mul(-SR, CP) >>,
       << -(Mul(Mul(CR, SP), CY) + Mul(SR, SY)),
          Mul(CY, SR) - Mul(Mul(CR, SP), SY),
          Mul(CR, CP) >> >>

\* The matrix of the angles in radians: Math::SinCos of each.
MatrixOfAngles(p, y, r) ==
    MatrixOfSinCos(SinF(p), CosF(p), SinF(y), CosF(y), SinF(r), CosF(r))

\* Rotator::Matrix: newPitch = yaw, newYaw = -roll, newRoll = pitch.
Matrix(r) == MatrixOfAngles(DEG2RAD(r.yaw), DEG2RAD(-r.roll), DEG2RAD(r.pitch))

\* Vec3 operator*(const Matrix3x3&, const Vec3&).
MatVec(m, v) ==
    << Mul(m[1][1], v[1]) + Mul(m[2][1], v[2]) + Mul(m[3][1], v[3]),
       Mul(m[1][2], v[1]) + Mul(m[2][2], v[2]) + Mul(m[3][2], v[3]),
       Mul(m[1][3], v[1]) + Mul(m[2][3], v[2]) + Mul(m[3][3], v[3]) >>

\* Rotator::RotateVector.
Rotator_RotateVector(r, v) == MatVec(Matrix(r), v)

\* Quat::RotateVector.
Quat_RotateVector(q, V) ==
    LET Q == << q.x, q.y, q.z >>
        T == VScale(2 * One, Cross(Q, V))
    IN  VAdd(VAdd(V, VScale(q.w, T)), Cross(Q, T))

\* Quat::Equals.
Quat_Equals(a, b, tolerance) ==
    /\ Abs(a.w - b.w) < tolerance
    /\ Abs(a.x - b.x) < tolerance
    /\ Abs(a.y - b.y) < tolerance
    /\ Abs(a.z - b.z) < tolerance

\* Quat::operator-() const.
Quat_Neg(q) == MkQuat(-q.w, -q.x, -q.y, -q.z)

\* The Hamilton product with its operands exchanged: q * a.
Quat_Mul_Exchanged(a, q) ==
    MkQuat(Mul(q.w, a.w) - Mul(q.x, a.x) - Mul(q.y, a.y) - Mul(q.z, a.z),
           Mul(q.w, a.x) + Mul(q.x, a.w) + Mul(q.y, a.z) - Mul(q.z, a.y),
           Mul(q.w, a.y) - Mul(q.x, a.z) + Mul(q.y, a.w) + Mul(q.z, a.x),
           Mul(q.w, a.z) + Mul(q.x, a.y) - Mul(q.y, a.x) + Mul(q.z, a.w))

\* Quat::operator*(const Quat&) const: the Hamilton product.
Quat_Mul(a, q) ==
    MkQuat(Mul(a.w, q.w) - Mul(a.x, q.x) - Mul(a.y, q.y) - Mul(a.z, q.z),
           Mul(a.w, q.x) + Mul(a.x, q.w) + Mul(a.y, q.z) - Mul(a.z, q.y),
           Mul(a.w, q.y) - Mul(a.x, q.z) + Mul(a.y, q.w) + Mul(a.z, q.x),
           Mul(a.w, q.z) + Mul(a.x, q.y) - Mul(a.y, q.x) + Mul(a.z, q.w))

\* Quat::operator|: the dot product.
Quat_Dot(a, q) == Mul(a.x, q.x) + Mul(a.y, q.y) + Mul(a.z, q.z) + Mul(a.w, q.w)

\* Quat::SizeSquared.
Quat_SizeSquared(q) == Mul(q.w, q.w) + Mul(q.x, q.x) + Mul(q.y, q.y) + Mul(q.z, q.z)

\* THRESH_QUAT_NORMALIZED (0.01f) and Quat::IsNormalized.
THRESH_QUAT_NORMALIZED == 1000000
Quat_IsNormalized(q) == Abs(One - Quat_SizeSquared(q)) < THRESH_QUAT_NORMALIZED

(***************************************************************************)
(* The program state.  Object 0 is a Quat and a Rotator held by value      *)
(* outside any Transform (a local); objects 1..NumTransforms are the       *)
(* rotation and rotator members of the Transforms.                         *)
(***************************************************************************)
VARIABLES
    quat,   \* quat[i]: the Quat object i
    rot,    \* rot[i]: the Rotator object i
    tf,     \* tf[t]: position, scale, mtx of Transform t, and its Notify count
    last,   \* the operation that ran last: its name, its object, its argument
    steps,  \* operations run so far
    conv    \* the conversion under test: its inputs, and its outputs once run

vars == << quat, rot, tf, last, steps, conv >>

NumTransforms == 2
Transforms == 1..NumTransforms
Objects == 0..NumTransforms

\* The objects and Transforms as one value that the member functions map
\* to the value after the call.
Heap == [quat |-> quat, rot |-> rot, tf |-> tf]

\* Mtx44 trans * (rot * scale) of Transform::UpdateMtx: the upper 3x3 block
\* scales column j of the rotation matrix by scale[j]; the translation is
\* the position.
Mtx44Compose(position, rotMtx, scale) ==
    [m |-> [i \in 1..3 |-> [j \in 1..3 |-> Mul(rotMtx[i][j], scale[j])]],
     t |-> position]

\* Transform::UpdateMtx.
UpdateMtx(H, t) ==
    [H EXCEPT !.tf[t].mtx = Mtx44Compose(H.tf[t].position, Matrix(H.rot[t]),
                                         H.tf[t].scale),
              !.tf[t].notified = @ + 1]

\* The fields w, x, y, z of object i overwritten with those of v.
SetQuatFields(H, i, v) ==
    [H EXCEPT !.quat[i].w = v.w, !.quat[i].x = v.x,
              !.quat[i].y = v.y, !.quat[i].z = v.z]

\* The fields pitch, yaw, roll of object i overwritten with those of v.
SetRotFields(H, i, v) ==
    [H EXCEPT !.rot[i].pitch = v.pitch, !.rot[i].yaw = v.yaw,
              !.rot[i].roll = v.roll]

\* Rotator::UpdateBoundTransform: the fields of the owner's rotation are
\* written one by one, then the owner recomposes its matrix.
Rotator_UpdateBoundTransform(H, i) ==
    IF H.rot[i].bound = NullT THEN H
    ELSE UpdateMtx(SetQuatFields(H, H.rot[i].bound, Quaternion(H.rot[i])),
                   H.rot[i].bound)

\* A variant of Rotator::operator= that also copies mp_BoundTransform, as
\* a memberwise assignment would.
Rotator_Assign_CopiesBound(H, i, r) ==
    Rotator_UpdateBoundTransform(
        [SetRotFields(H, i, r) EXCEPT !.rot[i].bound = r.bound], i)

\* Rotator::operator=(const Rotator&).
Rotator_Assign(H, i, r) == Rotator_UpdateBoundTransform(SetRotFields(H, i, r), i)

\* A variant of Quat::UpdateBoundTransform that propagates through the
\* rotator's public assignment, whose own owner update writes back.
Quat_UpdateBoundTransform_RoundTrip(H, i) ==
    IF H.quat[i].bound = NullT THEN H
    ELSE Rotator_Assign(H, H.quat[i].bound, GetRotator(H.quat[i]))

\* Quat::UpdateBoundTransform: the fields of the owner's rotator are
\* written one by one, then the owner recomposes its matrix.
Quat_UpdateBoundTransform(H, i) ==
    IF H.quat[i].bound = NullT THEN H
    ELSE UpdateMtx(SetRotFields(H, H.quat[i].bound, GetRotator(H.quat[i])),
                   H.quat[i].bound)

\* Quat::operator=(const Quat&).
Quat_Assign(H, i, q) == Quat_UpdateBoundTransform(SetQuatFields(H, i, q), i)

\* Quat::operator+=.
Quat_AddAssign(H, i, q) ==
    LET a == H.quat[i]
    IN  Quat_UpdateBoundTransform(
            SetQuatFields(H, i, MkQuat(a.w + q.w, a.x + q.x, a.y + q.y, a.z + q.z)), i)

\* Quat::operator-=.
Quat_SubAssign(H, i, q) ==
    LET a == H.quat[i]
    IN  Quat_UpdateBoundTransform(
            SetQuatFields(H, i, MkQuat(a.w - q.w, a.x - q.x, a.y - q.y, a.z - q.z)), i)

\* Quat::operator*=(const Quat&): the assignment of the product runs the
\* owner update, and the operator runs it again.
Quat_MulAssign(H, i, q) ==
    Quat_UpdateBoundTransform(Quat_Assign(H, i, Quat_Mul(H.quat[i], q)), i)

\* The four fields of a times scale.
Quat_Scaled(a, scale) ==
    MkQuat(Mul(a.w, scale), Mul(a.x, scale), Mul(a.y, scale), Mul(a.z, scale))

\* Quat::operator*=(float).
Quat_ScaleAssign(H, i, scale) ==
    Quat_UpdateBoundTransform(SetQuatFields(H, i, Quat_Scaled(H.quat[i], scale)), i)

\* Quat::operator/=(float), scale nonzero.
Quat_DivAssign(H, i, scale) ==
    LET a == H.quat[i]
    IN  Quat_UpdateBoundTransform(
            SetQuatFields(H, i, MkQuat(Div(a.w, scale), Div(a.x, scale),
                                       Div(a.y, scale), Div(a.z, scale))), i)

\* A variant of the branches of Quat::Normalize that leaves a quaternion
\* below the tolerance as it is.
Quat_NormalizeBranch_KeepSmall(H, i, tolerance, squareSum) ==
    IF squareSum >= tolerance
    THEN SetQuatFields(H, i, Quat_Scaled(H.quat[i], InvSqrt(squareSum)))
    ELSE H

\* The two branches of Quat::Normalize on squareSum: the scaling branch
\* writes the four fields and returns; the other assigns Quat::Identity.
Quat_NormalizeBranch(H, i, tolerance, squareSum) ==
    IF squareSum >= tolerance
    THEN SetQuatFields(H, i, Quat_Scaled(H.quat[i], InvSqrt(squareSum)))
    ELSE Quat_Assign(H, i, Identity)

\* Quat::Normalize(float tolerance).
Quat_Normalize(H, i, tolerance) ==
    Quat_NormalizeBranch(H, i, tolerance, Quat_SizeSquared(H.quat[i]))

\* Quat::EnforceShortestArcWith: bias is 1.f or -1.f by the sign of the dot
\* product.
Quat_EnforceShortestArcWith(H, i, q) ==
    SetQuatFields(H, i, Quat_Scaled(H.quat[i],
                        IF Quat_Dot(H.quat[i], q) >= 0 THEN One ELSE -One))

\* Rotator::operator+=.
Rotator_AddAssign(H, i, r) ==
    LET a == H.rot[i]
    IN  Rotator_UpdateBoundTransform(
            SetRotFields(H, i, MkRotator(a.pitch + r.pitch, a.yaw + r.yaw,
                                         a.roll + r.roll)), i)

\* Rotator::operator-=.
Rotator_SubAssign(H, i, r) ==
    LET a == H.rot[i]
    IN  Rotator_UpdateBoundTransform(
            SetRotFields(H, i, MkRotator(a.pitch - r.pitch, a.yaw - r.yaw,
                                         a.roll - r.roll)), i)

\* Rotator::operator*=(float).
Rotator_ScaleAssign(H, i, scale) ==
    LET a == H.rot[i]
    IN  Rotator_UpdateBoundTransform(
            SetRotFields(H, i, MkRotator(Mul(a.pitch, scale), Mul(a.yaw, scale),
                                         Mul(a.roll, scale))), i)

\* Rotator::Add(deltaPitch, deltaYaw, deltaRoll); d carries the three deltas.
Rotator_Add(H, i, d) ==
    LET a == H.rot[i]
    IN  Rotator_UpdateBoundTransform(
            SetRotFields(H, i, MkRotator(a.pitch + d.pitch, a.yaw + d.yaw,
                                         a.roll + d.roll)), i)

\* Rotator::Clamp.
Rotator_Clamp(H, i) ==
    LET a == H.rot[i]
    IN  SetRotFields(H, i, MkRotator(ClampAxis(a.pitch), ClampAxis(a.yaw),
                                     ClampAxis(a.roll)))

\* Rotator::Normalize.
Rotator_Normalize(H, i) ==
    LET a == H.rot[i]
    IN  SetRotFields(H, i, MkRotator(NormalizeAxis(a.pitch), NormalizeAxis(a.yaw),
                                     NormalizeAxis(a.roll)))

\* Quat::Quat(const Quat&) into object i: the four fields are copied, and
\* the default member initializer leaves mp_BoundTransform null.
Quat_CopyConstruct(H, i, q) ==
    [H EXCEPT !.quat[i] = MkQuat(q.w, q.x, q.y, q.z)]

\* The copy constructor of Rotator into object i.  The struct declares
\* none, so the implicit one copies every member, mp_BoundTransform too.
Rotator_CopyConstruct(H, i, r) == [H EXCEPT !.rot[i] = r]

\* Rotator::Rotator(const Quat&) into object i: a Rotator with a null
\* mp_BoundTransform that assigns q.GetRotator() to itself.
Rotator_FromQuat(H, i, q) ==
    Rotator_Assign([H EXCEPT !.rot[i].bound = NullT], i, GetRotator(q))

\* Quat::GetNormalized into object i: Quat r{*this}; r.Normalize(); return r.
Quat_GetNormalized(H, i, q, tolerance) ==
    Quat_Normalize(Quat_CopyConstruct(H, i, q), i, tolerance)

\* Rotator::GetNormalized into object i: Rotator r = *this; return r.Normalize().
Rotator_GetNormalized(H, i, r) ==
    Rotator_Normalize(Rotator_CopyConstruct(H, i, r), i)

\* Rotator::GetClamped into object i: Rotator r = *this; return r.Clamp().
Rotator_GetClamped(H, i, r) ==
    Rotator_Clamp(Rotator_CopyConstruct(H, i, r), i)

(***************************************************************************)
(* Transform.                                                              *)
(***************************************************************************)
\* The slot of a Transform that is not constructed.
NoTransform ==
    [alive |-> FALSE, position |-> << 0, 0, 0 >>, scale |-> << 0, 0, 0 >>,
     mtx |-> Mtx44Compose(<< 0, 0, 0 >>, Matrix(ZeroRotator), << 0, 0, 0 >>),
     notified |-> 0]

\* The binding both Transform constructors and operator= end with, before
\* their UpdateMtx: rotator.mp_BoundTransform = this, and the same for
\* rotation.
Bind(H, t) == [H EXCEPT !.rot[t].bound = t, !.quat[t].bound = t]

\* Transform::Transform().
Transform_Construct(H, t) ==
    LET H1 == [H EXCEPT !.tf[t].alive = TRUE,
                        !.tf[t].position = << 0, 0, 0 >>,
                        !.tf[t].scale = << One, One, One >>,
                        !.tf[t].notified = 0,
                        !.quat[t] = Identity,
                        !.rot[t] = ZeroRotator]
    IN  UpdateMtx(Bind(H1, t), t)

\* Transform::Transform(const Transform& rhs), rhs being Transform s.
Transform_CopyConstruct(H, t, s) ==
    LET H1 == [H EXCEPT !.tf[t].alive = TRUE,
                        !.tf[t].position = H.tf[s].position,
                        !.tf[t].scale = H.tf[s].scale,
                        !.tf[t].notified = 0]
        H2 == Quat_CopyConstruct(H1, t, H.quat[s])
        H3 == Rotator_FromQuat(H2, t, H.quat[s])
    IN  UpdateMtx(Bind(H3, t), t)

\* Transform::SetPosition(const Vec3&) and SetPosition(x, y, z).
Transform_SetPosition(H, t, pos) ==
    UpdateMtx([H EXCEPT !.tf[t].position = pos], t)

\* Transform::SetPosX, SetPosY, SetPosZ: k is the component, 1, 2 or 3.
Transform_SetPosAxis(H, t, k, v) ==
    UpdateMtx([H EXCEPT !.tf[t].position[k] = v], t)

\* Transform::SetScale(const Vec3&) and SetScale(x, y, z).
Transform_SetScale(H, t, s) ==
    UpdateMtx([H EXCEPT !.tf[t].scale = s], t)

\* Transform::SetScale(float uniform).
Transform_SetScaleUniform(H, t, uniform) ==
    UpdateMtx([H EXCEPT !.tf[t].scale = << uniform, uniform, uniform >>], t)

\* Transform::SetScaleX, SetScaleY, SetScaleZ: k is the component.
Transform_SetScaleAxis(H, t, k, v) ==
    UpdateMtx([H EXCEPT !.tf[t].scale[k] = v], t)

\* The statements of Transform::operator= that read rhs, Transform s:
\* SetPosition(rhs.position), SetScale(rhs.scale), rotation = rhs.rotation,
\* rotator = rhs.rotator.
CopyPosition(H, t, s) == Transform_SetPosition(H, t, H.tf[s].position)
CopyScale(H, t, s) == Transform_SetScale(H, t, H.tf[s].scale)
CopyRotation(H, t, s) == Quat_Assign(H, t, H.quat[s])
CopyRotator(H, t, s) == Rotator_Assign(H, t, H.rot[s])

\* Transform::operator=(const Transform& rhs), rhs being Transform s.
Transform_CopyAssign(H, t, s) ==
    UpdateMtx(Bind(CopyRotator(CopyRotation(CopyScale(CopyPosition(H, t, s),
                                                      t, s), t, s), t, s), t), t)

\* Transform::Clone of Transform s into slot t: the factory object for
\* "Transform" is the one Transform::Create builds, a default-constructed
\* Transform; SetPosition and SetScale then copy the position and the scale.
Transform_Clone(H, t, s) ==
    Transform_SetScale(
        Transform_SetPosition(Transform_Construct(H, t), t, H.tf[s].position),
        t, H.tf[s].scale)

(***************************************************************************)
(* Bounds and inputs of the state machine.                                 *)
(***************************************************************************)
\* Operations in one run of the binding machine.
MaxSteps == 2
\* Angles stay within AngleLimitDeg degrees and quaternion components
\* within QuatLimit.
AngleLimitDeg == 1080
QuatLimit == 2

QuatInputs ==
    { Quaternion(MkRotator(0, 90 * Deg, 0)),
      Quat_Neg(Quaternion(MkRotator(30 * Deg, 0, 0))) }
RotInputs ==
    { MkRotator(0, -90 * Deg, 0), MkRotator(30 * Deg, 0, 270 * Deg) }
ScaleInputs == { 2 * One, One \div 2 }
VecInputs == { << One, 2 * One, 3 * One >>, << -One, 0, One \div 2 >> }
FloatInputs == { 2 * One }

\* The fields of a Quat and of a Rotator without the back-reference.
QuatFields(q) == << q.w, q.x, q.y, q.z >>
RotFields(r) == << r.pitch, r.yaw, r.roll >>

\* The value a mutator writes to the quaternion a, by the operation alone.
QuatWritten(op, a, arg) ==
    CASE op = "Quat_Assign" -> QuatFields(arg)
      [] op = "Quat_AddAssign" ->
            << a.w + arg.w, a.x + arg.x, a.y + arg.y, a.z + arg.z >>
      [] op = "Quat_SubAssign" ->
            << a.w - arg.w, a.x - arg.x, a.y - arg.y, a.z - arg.z >>
      [] op = "Quat_MulAssign" -> QuatFields(Quat_Mul(a, arg))
      [] op = "Quat_ScaleAssign" -> QuatFields(Quat_Scaled(a, arg))
      [] op = "Quat_DivAssign" ->
            << Div(a.w, arg), Div(a.x, arg), Div(a.y, arg), Div(a.z, arg) >>
      [] op = "Quat_Normalize" ->
            IF Quat_SizeSquared(a) >= arg
            THEN QuatFields(Quat_Scaled(a, InvSqrt(Quat_SizeSquared(a))))
            ELSE QuatFields(Identity)
      [] op = "Quat_EnforceShortestArcWith" ->
            QuatFields(Quat_Scaled(a, IF Quat_Dot(a, arg) >= 0 THEN One ELSE -One))

\* The value a mutator writes to the rotator a, by the operation alone.
RotWritten(op, a, arg) ==
    CASE op \in { "Rotator_Assign" } -> RotFields(arg)
      [] op \in { "Rotator_AddAssign", "Rotator_Add" } ->
            << a.pitch + arg.pitch, a.yaw + arg.yaw, a.roll + arg.roll >>
      [] op = "Rotator_SubAssign" ->
            << a.pitch - arg.pitch, a.yaw - arg.yaw, a.roll - arg.roll >>
      [] op = "Rotator_ScaleAssign" ->
            << Mul(a.pitch, arg), Mul(a.yaw, arg), Mul(a.roll, arg) >>
      [] op = "Rotator_Clamp" ->
            << ClampAxis(a.pitch), ClampAxis(a.yaw), ClampAxis(a.roll) >>
      [] op = "Rotator_Normalize" ->
            << NormalizeAxis(a.pitch), NormalizeAxis(a.yaw), NormalizeAxis(a.roll) >>

\* The fields a growing mutator writes are within the limits (Normalize,
\* EnforceShortestArcWith, Clamp and the setters do not grow a value).
WriteInRange(op, i, arg) ==
    IF op \in { "Quat_Assign", "Quat_AddAssign", "Quat_SubAssign",
                "Quat_MulAssign", "Quat_ScaleAssign", "Quat_DivAssign" }
    THEN \A k \in 1..4 : Abs(QuatWritten(op, quat[i], arg)[k]) <= QuatLimit * One
    ELSE IF op \in { "Rotator_Assign", "Rotator_AddAssign", "Rotator_SubAssign",
                     "Rotator_ScaleAssign", "Rotator_Add" }
    THEN \A k \in 1..3 : Abs(RotWritten(op, rot[i], arg)[k]) <= AngleLimitDeg * Deg
    ELSE TRUE

\* The squared size of q is one Math::InvSqrt is computed for here, or is
\* below the tolerance of Quat::Normalize.
NormalizeInRange(q) ==
    \/ Quat_SizeSquared(q) < SMALL_NUMBER
    \/ (Quat_SizeSquared(q) >= One \div 64 /\ Quat_SizeSquared(q) < 20 * One)

\* Every angle and every quaternion component of H is within the limits.
InRange(H) ==
    \A i \in Objects :
        /\ \A c \in { H.quat[i].w, H.quat[i].x, H.quat[i].y, H.quat[i].z } :
               Abs(c) <= QuatLimit * One
        /\ \A a \in { H.rot[i].pitch, H.rot[i].yaw, H.rot[i].roll } :
               Abs(a) <= AngleLimitDeg * Deg

\* Object i exists: the local, or a member of a constructed Transform.
Exists(i) == IF i = 0 THEN TRUE ELSE tf[i].alive

NoConv == [kind |-> "none"]

InitHeap ==
    Transform_Construct([quat |-> [i \in Objects |-> Identity],
                         rot |-> [i \in Objects |-> ZeroRotator],
                         tf |-> [t \in Transforms |-> NoTransform]], 1)

\* One Transform is constructed, and a Quat and a Rotator local exist.
Init ==
    /\ quat = InitHeap.quat
    /\ rot = InitHeap.rot
    /\ tf = InitHeap.tf
    /\ last = [op |-> "Init", i |-> 0, arg |-> 0]
    /\ steps = 0
    /\ conv = NoConv

\* The call op on object i with argument arg leaves the program in H.
Apply(H, op, i, arg) ==
    /\ steps < MaxSteps
    /\ WriteInRange(op, i, arg)
    /\ InRange(H)
    /\ quat' = H.quat
    /\ rot' = H.rot
    /\ tf' = H.tf
    /\ last' = [op |-> op, i |-> i, arg |-> arg]
    /\ steps' = steps + 1
    /\ UNCHANGED conv

(***************************************************************************)
(* Actions: the mutators of Quat.                                          *)
(***************************************************************************)
QuatAssign(i, q) ==
    /\ Exists(i)
    /\ Apply(Quat_Assign(Heap, i, q), "Quat_Assign", i, q)

QuatAddAssign(i, q) ==
    /\ Exists(i)
    /\ Apply(Quat_AddAssign(Heap, i, q), "Quat_AddAssign", i, q)

QuatSubAssign(i, q) ==
    /\ Exists(i)
    /\ Apply(Quat_SubAssign(Heap, i, q), "Quat_SubAssign", i, q)

QuatMulAssign(i, q) ==
    /\ Exists(i)
    /\ Apply(Quat_MulAssign(Heap, i, q), "Quat_MulAssign", i, q)

QuatScaleAssign(i, scale) ==
    /\ Exists(i)
    /\ Apply(Quat_ScaleAssign(Heap, i, scale), "Quat_ScaleAssign", i, scale)

QuatDivAssign(i, scale) ==
    /\ Exists(i)
    /\ scale # 0
    /\ Apply(Quat_DivAssign(Heap, i, scale), "Quat_DivAssign", i, scale)

QuatNormalize(i) ==
    /\ Exists(i)
    /\ NormalizeInRange(quat[i])
    /\ Apply(Quat_Normalize(Heap, i, SMALL_NUMBER), "Quat_Normalize", i, SMALL_NUMBER)

QuatEnforceShortestArcWith(i, q) ==
    /\ Exists(i)
    /\ Apply(Quat_EnforceShortestArcWith(Heap, i, q),
             "Quat_EnforceShortestArcWith", i, q)

(***************************************************************************)
(* Actions: the mutators of Rotator.                                       *)
(***************************************************************************)
RotatorAssign(i, r) ==
    /\ Exists(i)
    /\ Apply(Rotator_Assign(Heap, i, r), "Rotator_Assign", i, r)

RotatorAddAssign(i, r) ==
    /\ Exists(i)
    /\ Apply(Rotator_AddAssign(Heap, i, r), "Rotator_AddAssign", i, r)

RotatorSubAssign(i, r) ==
    /\ Exists(i)
    /\ Apply(Rotator_SubAssign(Heap, i, r), "Rotator_SubAssign", i, r)

RotatorScaleAssign(i, scale) ==
    /\ Exists(i)
    /\ Apply(Rotator_ScaleAssign(Heap, i, scale), "Rotator_ScaleAssign", i, scale)

RotatorAdd(i, d) ==
    /\ Exists(i)
    /\ Apply(Rotator_Add(Heap, i, d), "Rotator_Add", i, d)

RotatorClamp(i) ==
    /\ Exists(i)
    /\ Apply(Rotator_Clamp(Heap, i), "Rotator_Clamp", i, 0)

RotatorNormalize(i) ==
    /\ Exists(i)
    /\ Apply(Rotator_Normalize(Heap, i), "Rotator_Normalize", i, 0)

(***************************************************************************)
(* Actions: the position and scale setters of Transform.                   *)
(***************************************************************************)
SetPosition(t, pos) ==
    /\ tf[t].alive
    /\ Apply(Transform_SetPosition(Heap, t, pos), "SetPosition", t, pos)

SetPositionXYZ(t, x, y, z) ==
    /\ tf[t].alive
    /\ Apply(Transform_SetPosition(Heap, t, << x, y, z >>), "SetPositionXYZ",
             t, << x, y, z >>)

SetPosX(t, x) ==
    /\ tf[t].alive
    /\ Apply(Transform_SetPosAxis(Heap, t, 1, x), "SetPosX", t, x)

SetPosY(t, y) ==
    /\ tf[t].alive
    /\ Apply(Transform_SetPosAxis(Heap, t, 2, y), "SetPosY", t, y)

SetPosZ(t, z) ==
    /\ tf[t].alive
    /\ Apply(Transform_SetPosAxis(Heap, t, 3, z), "SetPosZ", t, z)

SetScale(t, s) ==
    /\ tf[t].alive
    /\ Apply(Transform_SetScale(Heap, t, s), "SetScale", t, s)

SetScaleXYZ(t, x, y, z) ==
    /\ tf[t].alive
    /\ Apply(Transform_SetScale(Heap, t, << x, y, z >>), "SetScaleXYZ",
             t, << x, y, z >>)

SetScaleUniform(t, uniform) ==
    /\ tf[t].alive
    /\ Apply(Transform_SetScaleUniform(Heap, t, uniform), "SetScaleUniform",
             t, uniform)

SetScaleX(t, x) ==
    /\ tf[t].alive
    /\ Apply(Transform_SetScaleAxis(Heap, t, 1, x), "SetScaleX", t, x)

SetScaleY(t, y) ==
    /\ tf[t].alive
    /\ Apply(Transform_SetScaleAxis(Heap, t, 2, y), "SetScaleY", t, y)

SetScaleZ(t, z) ==
    /\ tf[t].alive
    /\ Apply(Transform_SetScaleAxis(Heap, t, 3, z), "SetScaleZ", t, z)

\* The public mutators of a Transform's rotation and rotator members and
\* the Transform's setters, on Transform 1.
Next ==
    \/ \E q \in QuatInputs : QuatAssign(1, q)
    \/ \E q \in QuatInputs : QuatAddAssign(1, q)
    \/ \E q \in QuatInputs : QuatSubAssign(1, q)
    \/ \E q \in QuatInputs : QuatMulAssign(1, q)
    \/ \E scale \in ScaleInputs : QuatScaleAssign(1, scale)
    \/ \E scale \in ScaleInputs : QuatDivAssign(1, scale)
    \/ QuatNormalize(1)
    \/ \E q \in QuatInputs : QuatEnforceShortestArcWith(1, q)
    \/ \E r \in RotInputs : RotatorAssign(1, r)
    \/ \E r \in RotInputs : RotatorAddAssign(1, r)
    \/ \E r \in RotInputs : RotatorSubAssign(1, r)
    \/ \E scale \in ScaleInputs : RotatorScaleAssign(1, scale)
    \/ \E d \in RotInputs : RotatorAdd(1, d)
    \/ RotatorClamp(1)
    \/ RotatorNormalize(1)
    \/ \E pos \in VecInputs : SetPosition(1, pos)
    \/ \E pos \in VecInputs : SetPositionXYZ(1, pos[1], pos[2], pos[3])
    \/ \E x \in FloatInputs : SetPosX(1, x)
    \/ \E y \in FloatInputs : SetPosY(1, y)
    \/ \E z \in FloatInputs : SetPosZ(1, z)
    \/ \E s \in VecInputs : SetScale(1, s)
    \/ \E s \in VecInputs : SetScaleXYZ(1, s[1], s[2], s[3])
    \/ \E uniform \in FloatInputs : SetScaleUniform(1, uniform)
    \/ \E x \in FloatInputs : SetScaleX(1, x)
    \/ \E y \in FloatInputs : SetScaleY(1, y)
    \/ \E z \in FloatInputs : SetScaleZ(1, z)

Spec == Init /\ [][Next]_vars

(***************************************************************************)
(* Actions: Transforms constructed, copied and assigned, and values copied *)
(* out of a Transform into the locals (object 0).                          *)
(***************************************************************************)
TransformConstruct(t) ==
    /\ ~tf[t].alive
    /\ Apply(Transform_Construct(Heap, t), "Transform_Construct", t, 0)

TransformCopyConstruct(t, s) ==
    /\ ~tf[t].alive
    /\ tf[s].alive
    /\ Apply(Transform_CopyConstruct(Heap, t, s), "Transform_CopyConstruct", t, s)

TransformCopyAssign(t, s) ==
    /\ tf[t].alive
    /\ tf[s].alive
    /\ Apply(Transform_CopyAssign(Heap, t, s), "Transform_CopyAssign", t, s)

\* Transform* c = s.Clone();
TransformClone(t, s) ==
    /\ ~tf[t].alive
    /\ tf[s].alive
    /\ Apply(Transform_Clone(Heap, t, s), "Transform_Clone", t, s)

\* Quat c = t.rotation;
QuatCopyConstruct(s) ==
    /\ tf[s].alive
    /\ Apply(Quat_CopyConstruct(Heap, 0, quat[s]), "Quat_CopyConstruct", 0, s)

\* Rotator c = t.rotator;
RotatorCopyConstruct(s) ==
    /\ tf[s].alive
    /\ Apply(Rotator_CopyConstruct(Heap, 0, rot[s]), "Rotator_CopyConstruct", 0, s)

\* Quat c = t.rotation.GetNormalized();
QuatGetNormalized(s) ==
    /\ tf[s].alive
    /\ NormalizeInRange(quat[s])
    /\ Apply(Quat_GetNormalized(Heap, 0, quat[s], SMALL_NUMBER),
             "Quat_GetNormalized", 0, s)

\* Rotator c = t.rotator.GetNormalized();
RotatorGetNormalized(s) ==
    /\ tf[s].alive
    /\ Apply(Rotator_GetNormalized(Heap, 0, rot[s]), "Rotator_GetNormalized", 0, s)

\* Rotator c = t.rotator.GetClamped();
RotatorGetClamped(s) ==
    /\ tf[s].alive
    /\ Apply(Rotator_GetClamped(Heap, 0, rot[s]), "Rotator_GetClamped", 0, s)

\* The values a program has at hand to assign: the inputs, and the value of
\* every object that exists.
QuatValues == QuatInputs \cup { quat[j] : j \in { k \in Objects : Exists(k) } }
RotValues == RotInputs \cup { rot[j] : j \in { k \in Objects : Exists(k) } }

\* Transforms are constructed, copy-constructed and assigned; their members
\* are assigned other values, bound ones too; values are copied out of them
\* into locals, and the locals are mutated.
NextCopy ==
    \/ \E t \in Transforms : TransformConstruct(t)
    \/ \E t, s \in Transforms : TransformCopyConstruct(t, s)
    \/ \E t, s \in Transforms : TransformCopyAssign(t, s)
    \/ \E t, s \in Transforms : TransformClone(t, s)
    \/ \E t \in Transforms : \E q \in QuatValues : QuatAssign(t, q)
    \/ \E t \in Transforms : \E r \in RotValues : RotatorAssign(t, r)
    \/ \E s \in Transforms : QuatCopyConstruct(s)
    \/ \E s \in Transforms : RotatorCopyConstruct(s)
    \/ \E s \in Transforms : QuatGetNormalized(s)
    \/ \E s \in Transforms : RotatorGetNormalized(s)
    \/ \E s \in Transforms : RotatorGetClamped(s)
    \/ \E q \in QuatInputs : QuatMulAssign(0, q)
    \/ \E scale \in ScaleInputs : QuatScaleAssign(0, scale)
    \/ \E d \in RotInputs : RotatorAdd(0, d)
    \/ \E scale \in ScaleInputs : RotatorScaleAssign(0, scale)

SpecCopy == Init /\ [][NextCopy]_vars

(***************************************************************************)
(* Properties of the binding between a Transform's rotation and rotator.   *)
(***************************************************************************)
QuatMutators ==
    { "Quat_Assign", "Quat_AddAssign", "Quat_SubAssign", "Quat_MulAssign",
      "Quat_ScaleAssign", "Quat_DivAssign", "Quat_Normalize",
      "Quat_EnforceShortestArcWith" }

RotatorMutators ==
    { "Rotator_Assign", "Rotator_AddAssign", "Rotator_SubAssign",
      "Rotator_ScaleAssign", "Rotator_Add", "Rotator_Clamp",
      "Rotator_Normalize" }

Setters ==
    { "SetPosition", "SetPositionXYZ", "SetPosX", "SetPosY", "SetPosZ",
      "SetScale", "SetScaleXYZ", "SetScaleUniform", "SetScaleX", "SetScaleY",
      "SetScaleZ" }

\* Two composed matrices agree entry by entry within tolerance.
Mtx44Equals(a, b, tolerance) ==
    /\ \A i \in 1..3 : \A j \in 1..3 : Abs(a.m[i][j] - b.m[i][j]) <= tolerance
    /\ \A j \in 1..3 : Abs(a.t[j] - b.t[j]) <= tolerance

\* The matrix of Transform t composed from its current fields.
Composed(t) == Mtx44Compose(tf[t].position, Matrix(rot[t]), tf[t].scale)

\* The quaternions a and b describe the same rotation: b is a or -a within
\* tolerance.
SameRotation(a, b, tolerance) ==
    Quat_Equals(a, b, tolerance) \/ Quat_Equals(Quat_Neg(a), b, tolerance)

\* C1: in every reachable state the rotation of every Transform describes
\* the rotation of its rotator.  The comparison is the weakest the claim
\* allows: only a rotation of unit length is compared, either sign of it is
\* accepted, and the tolerance is the one of Quat::IsNormalized.
C1_QuatEqualsRotatorQuaternion ==
    \A t \in Transforms :
        (tf[t].alive /\ Quat_IsNormalized(quat[t])) =>
            SameRotation(quat[t], Quaternion(rot[t]), THRESH_QUAT_NORMALIZED)

\* C2: after every mutator of a quaternion bound to a Transform, the
\* owner's rotator is GetRotator() of the quaternion's new value and the
\* owner's matrix is the one composed from the current fields.
C2_QuatMutatorUpdatesOwner ==
    (last.op \in QuatMutators /\ quat[last.i].bound # NullT) =>
        /\ RotFields(rot[quat[last.i].bound]) = RotFields(GetRotator(quat[last.i]))
        /\ tf[quat[last.i].bound].mtx = Composed(quat[last.i].bound)

\* C3: after every mutator of a rotator bound to a Transform, the owner's
\* quaternion is Quaternion() of the rotator's new value and the owner's
\* matrix is the one composed from the current fields.
C3_RotatorMutatorUpdatesOwner ==
    (last.op \in RotatorMutators /\ rot[last.i].bound # NullT) =>
        /\ QuatFields(quat[rot[last.i].bound]) = QuatFields(Quaternion(rot[last.i]))
        /\ tf[rot[last.i].bound].mtx = Composed(rot[last.i].bound)

\* The matrix of Transform t composed from its position, its scale and the
\* rotator r.
ComposedWith(t, r) == Mtx44Compose(tf[t].position, Matrix(r), tf[t].scale)

\* C4: after every setter and every mutation of the bound quaternion or
\* rotator, the matrix of the Transform equals, within tolerance,
\* Translate(position) * RotationMatrix(rotator) * Scale(scale) of the
\* current position, rotator and scale; and after a mutation of the bound
\* quaternion its rotation part is that of the rotator re-derived from the
\* quaternion's new value.
C4_MtxFollowsMutation ==
    /\ \A t \in Transforms :
           tf[t].alive => Mtx44Equals(tf[t].mtx, Composed(t), KINDA_SMALL_NUMBER)
    /\ (last.op \in QuatMutators /\ quat[last.i].bound # NullT) =>
           Mtx44Equals(tf[quat[last.i].bound].mtx,
                       ComposedWith(quat[last.i].bound, GetRotator(quat[last.i])),
                       KINDA_SMALL_NUMBER)

\* C7: a mutation of a bound quaternion leaves the quaternion at the value
\* the operation wrote, and a mutation of a bound rotator leaves the
\* rotator at the value the operation wrote: the owner update does not
\* write back to the side that was mutated.
C7_OneWayPropagation ==
    [][ /\ (last'.op \in QuatMutators /\ quat[last'.i].bound # NullT)
            => QuatFields(quat'[last'.i])
                   = QuatWritten(last'.op, quat[last'.i], last'.arg)
        /\ (last'.op \in RotatorMutators /\ rot[last'.i].bound # NullT)
            => RotFields(rot'[last'.i])
                   = RotWritten(last'.op, rot[last'.i], last'.arg)
      ]_vars

\* A bound quaternion was assigned a value that its round trip through the
\* rotator would have changed.
C7_Witness ==
    /\ last.op = "Quat_Assign"
    /\ quat[last.i].bound # NullT
    /\ QuatFields(quat[last.i]) = QuatFields(last.arg)
    /\ QuatFields(quat[last.i]) # QuatFields(Quaternion(GetRotator(quat[last.i])))

(***************************************************************************)
(* Properties of copies.                                                   *)
(***************************************************************************)
\* C5: a Quat or Rotator local, a value that is no member of a Transform,
\* carries no back-reference, and a mutation of it leaves every Transform's
\* rotation, rotator and matrix unchanged.
C5_LocalMutationLeavesTransforms ==
    [][ /\ quat'[0].bound = NullT
        /\ rot'[0].bound = NullT
        /\ (last'.i = 0 /\ last'.op \in QuatMutators \cup RotatorMutators) =>
               /\ tf' = tf
               /\ \A t \in Transforms : quat'[t] = quat[t] /\ rot'[t] = rot[t]
      ]_vars

\* C6: the back-references of the rotation and the rotator of every
\* constructed Transform point to that Transform.
C6_BoundToOwnTransform ==
    \A t \in Transforms :
        tf[t].alive => (quat[t].bound = t /\ rot[t].bound = t)

\* The rotator of one Transform was assigned the bound rotator of another.
C6_Witness ==
    /\ last.op = "Rotator_Assign"
    /\ last.i \in Transforms
    /\ last.arg.bound \in Transforms \ { last.i }
    /\ \A t \in Transforms : tf[t].alive

(***************************************************************************)
(* The conversions between the representations, applied to inputs drawn    *)
(* from a grid: a rotator and a vector rotated by its quaternion and by    *)
(* its matrix; an axis rotated by the quaternion of a rotation about it; a *)
(* rotator carried to its quaternion and back.                             *)
(***************************************************************************)
\* The grid holds the angles k * GridStepDeg degrees, k in -MaxK..MaxK.
GridStepDeg == 30
MaxK == 6
GridAngles == { k * GridStepDeg * Deg : k \in -MaxK..MaxK }

\* The rotators of the grid, Rotator(10, 20, 30), and rotators whose pitch
\* is one degree and 0.05 degrees from a pole.
RotGrid ==
    { MkRotator(p, y, r) : p \in GridAngles, y \in GridAngles, r \in GridAngles }
        \cup { MkRotator(10 * Deg, 20 * Deg, 30 * Deg) }
        \cup { MkRotator(p, 10 * Deg, 20 * Deg) :
                   p \in { 89 * Deg, -89 * Deg, 89950000, -89950000 } }

UnitVectors ==
    { << One, 0, 0 >>, << 0, One, 0 >>, << 0, 0, One >>, << 60000000, 80000000, 0 >> }

GridRadians == { DEG2RAD(a) : a \in GridAngles }

MkConv(kind, r, v, theta) ==
    [kind |-> kind, r |-> r, v |-> v, theta |-> theta, done |-> FALSE,
     vq |-> << 0, 0, 0 >>, vm |-> << 0, 0, 0 >>, rt |-> ZeroRotator]

ConvInputs ==
    { MkConv("rotate", r, v, 0) : r \in RotGrid, v \in UnitVectors }
        \cup { MkConv("axis", ZeroRotator, a, theta) :
                   a \in UnitVectors, theta \in GridRadians }
        \cup { MkConv("roundtrip", r, << 0, 0, 0 >>, 0) : r \in RotGrid }

InitConv ==
    /\ quat = InitHeap.quat
    /\ rot = InitHeap.rot
    /\ tf = InitHeap.tf
    /\ last = [op |-> "Init", i |-> 0, arg |-> 0]
    /\ steps = 0
    /\ conv \in ConvInputs

\* r.Quaternion().RotateVector(v) and r.RotateVector(v), which is
\* r.Matrix() * v.
ConvRotate ==
    /\ conv.kind = "rotate"
    /\ ~conv.done
    /\ conv' = [conv EXCEPT !.done = TRUE,
                            !.vq = Quat_RotateVector(Quaternion(conv.r), conv.v),
                            !.vm = Rotator_RotateVector(conv.r, conv.v)]
    /\ UNCHANGED << quat, rot, tf, last, steps >>

\* Quat(a, theta).RotateVector(a).
ConvAxisAngle ==
    /\ conv.kind = "axis"
    /\ ~conv.done
    /\ conv' = [conv EXCEPT !.done = TRUE,
                            !.vq = Quat_RotateVector(QuatAxisAngle(conv.v, conv.theta),
                                                     conv.v)]
    /\ UNCHANGED << quat, rot, tf, last, steps >>

\* e.Quaternion().GetRotator().
ConvRoundTrip ==
    /\ conv.kind = "roundtrip"
    /\ ~conv.done
    /\ conv' = [conv EXCEPT !.done = TRUE, !.rt = GetRotator(Quaternion(conv.r))]
    /\ UNCHANGED << quat, rot, tf, last, steps >>

NextConv == ConvRotate \/ ConvAxisAngle \/ ConvRoundTrip

SpecConv == InitConv /\ [][NextConv]_vars

(***************************************************************************)
(* Properties of the conversions.                                          *)
(***************************************************************************)
\* C8: for every rotator r and vector v, r.Quaternion().RotateVector(v)
\* equals r.Matrix() * v within tolerance.
C8_QuatAndMatrixRotateAlike ==
    (conv.kind = "rotate" /\ conv.done) =>
        VecEquals(conv.vq, conv.vm, KINDA_SMALL_NUMBER)

\* C9: for every unit axis a and angle theta, Quat(a, theta).RotateVector(a)
\* equals a within tolerance.
C9_AxisIsFixed ==
    (conv.kind = "axis" /\ conv.done) =>
        VecEquals(conv.vq, conv.v, KINDA_SMALL_NUMBER)

\* The tolerance, in degrees, of a comparison of angles that went through
\* sinf, cosf, asinf and atan2f.
AngleTolerance == 10 * KINDA_SMALL_NUMBER_DEG

\* The triples a and b agree angle by angle.
SameTriple(a, b) ==
    /\ Abs(a.pitch - b.pitch) <= AngleTolerance
    /\ Abs(a.yaw - b.yaw) <= AngleTolerance
    /\ Abs(a.roll - b.roll) <= AngleTolerance

\* A comparison of the triples angle by angle, without the reduction
\* modulo 360 degrees.
Rotator_Equals_NoWrap(a, b, tolerance) ==
    /\ Abs(a.pitch - b.pitch) <= tolerance
    /\ Abs(a.yaw - b.yaw) <= tolerance
    /\ Abs(a.roll - b.roll) <= tolerance

\* Rotator::Equals: the triples agree angle by angle modulo 360 degrees.
Rotator_Equals(a, b, tolerance) ==
    /\ Abs(NormalizeAxis(a.pitch - b.pitch)) <= tolerance
    /\ Abs(NormalizeAxis(a.yaw - b.yaw)) <= tolerance
    /\ Abs(NormalizeAxis(a.roll - b.roll)) <= tolerance

\* C10 as claimed: e.Quaternion().GetRotator() is the triple e whenever the
\* pitch of e is strictly inside (-90, 90) and its yaw and roll are inside
\* (-180, 180].
C10_TripleOnHalfOpenRange ==
    (/\ conv.kind = "roundtrip" /\ conv.done
     /\ Abs(conv.r.pitch) < 90 * Deg
     /\ -180 * Deg < conv.r.yaw /\ conv.r.yaw <= 180 * Deg
     /\ -180 * Deg < conv.r.roll /\ conv.r.roll <= 180 * Deg)
        => SameTriple(conv.rt, conv.r)

\* The pitch beyond which Quat::GetRotator takes a pole branch: the one
\* whose sine is twice SINGULARITY_THRESHOLD, 89.919 degrees.
PolePitch == RAD2DEG(AsinF(SINGULARITY_THRESHOLD_X2))

\* A pitch at most this is at least one degree from the poles.
AwayFromPoles == 89 * Deg

\* C10: e.Quaternion().GetRotator() describes the same rotation as e for
\* every e; it is the triple e whenever the pitch of e is at least one
\* degree from the poles and its yaw and roll are strictly inside
\* (-180, 180); and on the half-open range of the claim it is the triple e
\* modulo 360 degrees whenever the pitch is below the pole branch.
C10_RoundTrip ==
    (conv.kind = "roundtrip" /\ conv.done) =>
        /\ SameRotation(Quaternion(conv.rt), Quaternion(conv.r),
                        10 * KINDA_SMALL_NUMBER)
        /\ (/\ Abs(conv.r.pitch) <= AwayFromPoles
            /\ Abs(conv.r.yaw) < 180 * Deg
            /\ Abs(conv.r.roll) < 180 * Deg)
               => SameTriple(conv.rt, conv.r)
        /\ (/\ Abs(conv.r.pitch) < PolePitch
            /\ -180 * Deg < conv.r.yaw /\ conv.r.yaw <= 180 * Deg
            /\ -180 * Deg < conv.r.roll /\ conv.r.roll <= 180 * Deg)
               => Rotator_Equals(conv.rt, conv.r, AngleTolerance)

\* The round trip of a rotator with three nonzero angles inside the open
\* range was computed and gave the triple back.
C10_Witness ==
    /\ conv.kind = "roundtrip"
    /\ conv.done
    /\ conv.r.pitch = 60 * Deg
    /\ conv.r.yaw = -150 * Deg
    /\ conv.r.roll = 120 * Deg
    /\ SameTriple(conv.rt, conv.r)

(***************************************************************************)
(* The axis functions of Rotator, applied to single angles and to rotators *)
(* shifted by whole turns.                                                 *)
(***************************************************************************)
MaxTurns == 2

\* Distances, in units of Deg, from a multiple of 90 degrees: within the
\* spacing of floats at 360 degrees (30.5 units) and just beyond it.
AxisOffsets == { -40, -1, 0, 1, 40 }

\* The float angles at and next to the multiples of 90 degrees.
AxisAngles ==
    { FloatAngle(q * 90 * Deg + d) : q \in (-4 * MaxTurns)..(4 * MaxTurns),
                                     d \in AxisOffsets }

\* Rotators whose angles are whole degrees, and one whose angles are not.
PeriodicRotators ==
    { ZeroRotator,
      MkRotator(10 * Deg, 20 * Deg, 30 * Deg),
      MkRotator(-90 * Deg, 180 * Deg, -180 * Deg),
      MkRotator(10100000, -20300000, 179900000) }

Turns == { << k1, k2, k3 >> : k1 \in -MaxTurns..MaxTurns,
                               k2 \in -MaxTurns..MaxTurns,
                               k3 \in -MaxTurns..MaxTurns }

\* Rotator(r.pitch + 360 k1, r.yaw + 360 k2, r.roll + 360 k3), each sum a
\* float.
ShiftedByTurns(r, k) ==
    MkRotator(FloatAngle(r.pitch + 360 * Deg * k[1]),
              FloatAngle(r.yaw + 360 * Deg * k[2]),
              FloatAngle(r.roll + 360 * Deg * k[3]))

\* Rotator::IsNearlyZero.
Rotator_IsNearlyZero(r, tolerance) ==
    /\ Abs(NormalizeAxis(r.pitch)) <= tolerance
    /\ Abs(NormalizeAxis(r.yaw)) <= tolerance
    /\ Abs(NormalizeAxis(r.roll)) <= tolerance

\* Rotator::IsZero.
Rotator_IsZero(r) ==
    /\ Abs(ClampAxis(r.pitch)) = 0
    /\ Abs(ClampAxis(r.yaw)) = 0
    /\ Abs(ClampAxis(r.roll)) = 0

MkAxis(kind, a, r, k) ==
    [kind |-> kind, a |-> a, r |-> r, k |-> k, done |-> FALSE, out |-> 0,
     eq |-> FALSE, nz |-> FALSE, iz |-> FALSE]

AxisInputs ==
    { MkAxis(kind, a, ZeroRotator, << 0, 0, 0 >>) :
          kind \in { "normalizeAxis", "clampAxis" }, a \in AxisAngles }
        \cup { MkAxis("periodic", 0, r, k) : r \in PeriodicRotators, k \in Turns }
        \cup { MkAxis("turns", 0, ZeroRotator, k) : k \in Turns }

InitAxis ==
    /\ quat = InitHeap.quat
    /\ rot = InitHeap.rot
    /\ tf = InitHeap.tf
    /\ last = [op |-> "Init", i |-> 0, arg |-> 0]
    /\ steps = 0
    /\ conv \in AxisInputs

\* Rotator::NormalizeAxis(a).
AxisNormalize ==
    /\ conv.kind = "normalizeAxis"
    /\ ~conv.done
    /\ conv' = [conv EXCEPT !.done = TRUE, !.out = NormalizeAxis(conv.a)]
    /\ UNCHANGED << quat, rot, tf, last, steps >>

\* Rotator::ClampAxis(a).
AxisClamp ==
    /\ conv.kind = "clampAxis"
    /\ ~conv.done
    /\ conv' = [conv EXCEPT !.done = TRUE, !.out = ClampAxis(conv.a)]
    /\ UNCHANGED << quat, rot, tf, last, steps >>

\* r.Equals(Rotator(r.pitch + 360 k1, r.yaw + 360 k2, r.roll + 360 k3)).
AxisEquals ==
    /\ conv.kind = "periodic"
    /\ ~conv.done
    /\ conv' = [conv EXCEPT !.done = TRUE,
                            !.eq = Rotator_Equals(conv.r,
                                                  ShiftedByTurns(conv.r, conv.k),
                                                  KINDA_SMALL_NUMBER_DEG)]
    /\ UNCHANGED << quat, rot, tf, last, steps >>

\* Rotator(360 k1, 360 k2, 360 k3).IsNearlyZero() and .IsZero().
AxisIsZero ==
    /\ conv.kind = "turns"
    /\ ~conv.done
    /\ conv' = [conv EXCEPT
                   !.done = TRUE,
                   !.nz = Rotator_IsNearlyZero(ShiftedByTurns(ZeroRotator, conv.k),
                                               KINDA_SMALL_NUMBER_DEG),
                   !.iz = Rotator_IsZero(ShiftedByTurns(ZeroRotator, conv.k))]
    /\ UNCHANGED << quat, rot, tf, last, steps >>

NextAxis == AxisNormalize \/ AxisClamp \/ AxisEquals \/ AxisIsZero

SpecAxis == InitAxis /\ [][NextAxis]_vars

\* C11: for every angle a, NormalizeAxis(a) is above -180 degrees,
\* strictly, and at most 180 degrees.
C11_NormalizeAxisRange ==
    (conv.kind = "normalizeAxis" /\ conv.done) =>
        (-180 * Deg < conv.out /\ conv.out <= 180 * Deg)

\* C12: for every angle a, ClampAxis(a) is at least 0 and strictly below
\* 360 degrees, and differs from a by a whole number of turns.
C12_ClampAxisRange ==
    (conv.kind = "clampAxis" /\ conv.done) =>
        /\ 0 <= conv.out /\ conv.out < 360 * Deg
        /\ (conv.out - conv.a) % (360 * Deg) = 0

NormalizedLocal(q, tolerance) == Quat_GetNormalized(InitHeap, 0, q, tolerance).quat[0]

\* Vector3D::MagnitudeSq.
MagnitudeSq(v) == Dot(v, v)

\* The quaternion Quat::FindBetween_Helper normalizes: from the cross
\* product when result_w is large enough, else a half turn around an axis
\* picked from A.
FindBetween_Branch(A, B, normAB, result_w) ==
    IF result_w >= Mul(KINDA_SMALL_NUMBER, normAB)
    THEN MkQuat(result_w, Cross(A, B)[1], Cross(A, B)[2], Cross(A, B)[3])
    ELSE IF Abs(A[1]) > Abs(B[1])
         THEN MkQuat(0, -A[3], 0, A[1])
         ELSE MkQuat(0, 0, -A[3], A[2])

\* Quat::FindBetween_Helper.
FindBetween_Helper(A, B, normAB) ==
    NormalizedLocal(FindBetween_Branch(A, B, normAB, normAB + Dot(A, B)),
                    SMALL_NUMBER)

\* Quat::FindBetweenVectors, which Quat::FindBetween returns.
FindBetweenVectors(v1, v2) ==
    FindBetween_Helper(v1, v2, Sqrt(Mul(MagnitudeSq(v1), MagnitudeSq(v2))))

FindBetween(v1, v2) == FindBetweenVectors(v1, v2)

\* A variant of Quat::Inverse without the test of IsNormalized.
Quat_Inverse_Unchecked(q) == MkQuat(q.w, -q.x, -q.y, -q.z)

\* A variant of Quat::Inverse that returns a normalized receiver as it is.
Quat_Inverse_AsIs(q) ==
    IF Quat_IsNormalized(q) THEN MkQuat(q.w, q.x, q.y, q.z) ELSE Identity

\* Quat::Inverse() const.
Quat_Inverse(q) ==
    IF Quat_IsNormalized(q) THEN MkQuat(q.w, -q.x, -q.y, -q.z) ELSE Identity

\* acosf of a cosine 0 <= c <= 1, in radians.
AcosF(c) == Atan2F(Sqrt(One - Mul(c, c)), c)

\* DOT_THRESHOLD (0.9999f) of Quat::Slerp_NotNormalized.
DOT_THRESHOLD == 99990000

\* sinf(fraction * omega) * invSin.
Slerp_SineScale(fraction, omega, invSin) == Mul(SinF(Mul(fraction, omega)), invSin)

\* The scale of Quat::Slerp_NotNormalized for the fraction 1 - t of q1 or
\* t of q2: spherical below DOT_THRESHOLD, where omega = acosf(cosSum) and
\* invSin = 1.f / sinf(omega), and linear from it on.
Slerp_Scale(cosSum, fraction) ==
    IF cosSum < DOT_THRESHOLD
    THEN Slerp_SineScale(fraction, AcosF(cosSum), Div(One, SinF(AcosF(cosSum))))
    ELSE fraction

\* scale1 with the sign of rawCosSum.
Slerp_Flip_Never(rawCosSum, scale1) == scale1

\* scale1 = (rawCosSum >= 0.f) ? scale1 : -scale1.
Slerp_Flip(rawCosSum, scale1) == IF rawCosSum >= 0 THEN scale1 ELSE -scale1

\* result = scale0 * q1 + scale1 * q2, component by component.
Slerp_Combine(q1, q2, scale0, scale1) ==
    MkQuat(Mul(scale0, q1.w) + Mul(scale1, q2.w),
           Mul(scale0, q1.x) + Mul(scale1, q2.x),
           Mul(scale0, q1.y) + Mul(scale1, q2.y),
           Mul(scale0, q1.z) + Mul(scale1, q2.z))

\* Quat::Slerp_NotNormalized.
Slerp_NotNormalized(q1, q2, t) ==
    Slerp_Combine(q1, q2,
                  Slerp_Scale(Abs(Quat_Dot(q1, q2)), One - t),
                  Slerp_Flip(Quat_Dot(q1, q2), Slerp_Scale(Abs(Quat_Dot(q1, q2)), t)))

\* Quat::Slerp.
Slerp(q1, q2, t) == NormalizedLocal(Slerp_NotNormalized(q1, q2, t), SMALL_NUMBER)

\* The nonzero vectors whose components are -1, 0 or 1.
BetweenVectors ==
    { << x * One, y * One, z * One >> : x \in -1..1, y \in -1..1, z \in -1..1 }
        \ { << 0, 0, 0 >> }

\* The factors of v1 that give v2: opposite and longer, as long, shorter;
\* and along v1.
BetweenScales == { -125000000, -One, -(One \div 2), One \div 2 }

\* Rotators whose quaternions are unit quaternions at least 15 degrees
\* apart.
UnitRotators ==
    { MkRotator(p * Deg, y * Deg, r * Deg) :
          p \in { 0, 60 }, y \in { 0, 90, -120 }, r \in { 0, 30 } }

\* Unit quaternions, each with its negative: the same rotation.
UnitQuats ==
    { Quaternion(r) : r \in UnitRotators }
        \cup { Quat_Neg(Quaternion(r)) : r \in UnitRotators }

\* Quaternions of any length whose components are multiples of one half,
\* and unit quaternions at and next to the poles.
CoarseQuats ==
    { MkQuat(w * (One \div 2), x * (One \div 2), y * (One \div 2), z * (One \div 2)) :
          w \in -QuatLimit..QuatLimit, x \in -QuatLimit..QuatLimit,
          y \in -QuatLimit..QuatLimit, z \in -QuatLimit..QuatLimit }
        \cup { Quaternion(MkRotator(p, 20 * Deg, 30 * Deg)) :
                   p \in { 90 * Deg, -90 * Deg, 89950000, -89950000,
                            89 * Deg, -89 * Deg } }

\* Factors that take a unit quaternion to either side of the tolerance of
\* Quat::IsNormalized: squared lengths 0.988, 0.992, 1.008 and 1.012.
NearUnitScales == { 99400000, 99600000, 100400000, 100600000 }

\* The receivers of Inverse: unit quaternions, quaternions near unit length
\* and quaternions far from it.
InverseQuats ==
    UnitQuats \cup CoarseQuats
        \cup { Quat_Scaled(q, f) : q \in UnitQuats, f \in NearUnitScales }

\* The receivers of Normalize: quaternions of squared length 0 and from
\* 0.25 up, and two of squared length below 1e-8.
NormalizeQuats ==
    CoarseQuats \cup { MkQuat(1000, 0, -1000, 0), MkQuat(0, 0, 0, -5000) }

\* The tolerances given to Normalize: the default, and one half.
NormalizeTolerances == { SMALL_NUMBER, One \div 2 }

\* The vectors rotated: the unit vectors, and one that is not of unit
\* length.
RotatedVectors == UnitVectors \cup { << One, -2 * One, One \div 2 >> }

\* The interpolation parameters t: the ends of [0, 1] and two between.
SlerpFractions == { 0, One \div 4, One \div 2, One }

MkQuatOp(kind, q1, q2, v1, v2, t) ==
    [kind |-> kind, q1 |-> q1, q2 |-> q2, v1 |-> v1, v2 |-> v2, t |-> t,
     done |-> FALSE, out |-> MkQuat(0, 0, 0, 0), rt |-> ZeroRotator,
     vq |-> << 0, 0, 0 >>, vm |-> << 0, 0, 0 >>]

QuatOpInputs ==
    { MkQuatOp("findBetween", Identity, Identity, v, VScale(s, v), 0) :
          v \in BetweenVectors, s \in BetweenScales }
        \cup { MkQuatOp("slerp", q1, q2, << 0, 0, 0 >>, << 0, 0, 0 >>, t) :
                   q1 \in UnitQuats, q2 \in UnitQuats, t \in SlerpFractions }
        \cup { MkQuatOp("getRotator", q, Identity, << 0, 0, 0 >>, << 0, 0, 0 >>, 0) :
                   q \in CoarseQuats }
        \cup { MkQuatOp("inverse", q, Identity, << 0, 0, 0 >>, << 0, 0, 0 >>, 0) :
                   q \in InverseQuats }
        \cup { MkQuatOp("mulInverse", q, Identity, << 0, 0, 0 >>, << 0, 0, 0 >>, 0) :
                   q \in UnitQuats }
        \cup { MkQuatOp("normalize", q, Identity, << 0, 0, 0 >>, << 0, 0, 0 >>, tol) :
                   q \in NormalizeQuats, tol \in NormalizeTolerances }
        \cup { MkQuatOp("compose", A, B, v, << 0, 0, 0 >>, 0) :
                   A \in UnitQuats, B \in UnitQuats, v \in RotatedVectors }

InitQuatOp ==
    /\ quat = InitHeap.quat
    /\ rot = InitHeap.rot
    /\ tf = InitHeap.tf
    /\ last = [op |-> "Init", i |-> 0, arg |-> 0]
    /\ steps = 0
    /\ conv \in QuatOpInputs

\* Quat::FindBetween(v1, v2).
QuatFindBetween ==
    /\ conv.kind = "findBetween"
    /\ ~conv.done
    /\ conv' = [conv EXCEPT !.done = TRUE, !.out = FindBetween(conv.v1, conv.v2)]
    /\ UNCHANGED << quat, rot, tf, last, steps >>

\* Quat::Slerp(q1, q2, t).
QuatSlerp ==
    /\ conv.kind = "slerp"
    /\ ~conv.done
    /\ conv' = [conv EXCEPT !.done = TRUE, !.out = Slerp(conv.q1, conv.q2, conv.t)]
    /\ UNCHANGED << quat, rot, tf, last, steps >>

\* q.GetRotator().
QuatGetRotator ==
    /\ conv.kind = "getRotator"
    /\ ~conv.done
    /\ conv' = [conv EXCEPT !.done = TRUE, !.rt = GetRotator(conv.q1)]
    /\ UNCHANGED << quat, rot, tf, last, steps >>

\* q.Inverse(): a const member function, the receiver is not written.
QuatInverse ==
    /\ conv.kind = "inverse"
    /\ ~conv.done
    /\ conv' = [conv EXCEPT !.done = TRUE, !.out = Quat_Inverse(conv.q1)]
    /\ UNCHANGED << quat, rot, tf, last, steps >>

\* q * q.Inverse().
QuatMulInverse ==
    /\ conv.kind = "mulInverse"
    /\ ~conv.done
    /\ conv' = [conv EXCEPT !.done = TRUE,
                            !.out = Quat_Mul(conv.q1, Quat_Inverse(conv.q1))]
    /\ UNCHANGED << quat, rot, tf, last, steps >>

\* Quat r{q}; r.Normalize(tolerance): the tolerance is conv.t.
QuatNormalizeLocal ==
    /\ conv.kind = "normalize"
    /\ ~conv.done
    /\ conv' = [conv EXCEPT !.done = TRUE, !.out = NormalizedLocal(conv.q1, conv.t)]
    /\ UNCHANGED << quat, rot, tf, last, steps >>

\* (A * B).RotateVector(v) and A.RotateVector(B.RotateVector(v)).
QuatCompose ==
    /\ conv.kind = "compose"
    /\ ~conv.done
    /\ conv' = [conv EXCEPT
                   !.done = TRUE,
                   !.vq = Quat_RotateVector(Quat_Mul(conv.q1, conv.q2), conv.v1),
                   !.vm = Quat_RotateVector(conv.q1,
                                            Quat_RotateVector(conv.q2, conv.v1))]
    /\ UNCHANGED << quat, rot, tf, last, steps >>

NextQuatOp ==
    \/ QuatFindBetween
    \/ QuatSlerp
    \/ QuatGetRotator
    \/ QuatInverse
    \/ QuatMulInverse
    \/ QuatNormalizeLocal
    \/ QuatCompose

SpecQuatOp == InitQuatOp /\ [][NextQuatOp]_vars

\* v2 is v1 times a negative factor: the vectors are antiparallel.
Antiparallel(v1, v2) ==
    \E s \in BetweenScales : s < 0 /\ v2 = VScale(s, v1)

\* C14: for nonzero antiparallel v1 and v2, FindBetween(v1, v2) is a unit
\* quaternion with w = 0 whose axis (x, y, z) is nonzero and perpendicular
\* to v1; it is never Identity.
C14_HalfTurnBetweenOpposites ==
    (conv.kind = "findBetween" /\ conv.done /\ Antiparallel(conv.v1, conv.v2)) =>
        /\ conv.out.w = 0
        /\ << conv.out.x, conv.out.y, conv.out.z >> # << 0, 0, 0 >>
        /\ Abs(Dot(<< conv.out.x, conv.out.y, conv.out.z >>, conv.v1))
               <= KINDA_SMALL_NUMBER
        /\ Quat_IsNormalized(conv.out)
        /\ conv.out # Identity

\* C15 as claimed: for all unit q1 and q2, those with a negative dot
\* product included, Slerp(q1, q2, 0) equals q1 and Slerp(q1, q2, 1) equals
\* q2 component by component, and the result has unit length for every t.
\* The tolerance is the one of Quat::IsNormalized.
C15_SlerpEndsAtQ2 ==
    (conv.kind = "slerp" /\ conv.done) =>
        /\ conv.t = 0 => Quat_Equals(conv.out, conv.q1, THRESH_QUAT_NORMALIZED)
        /\ conv.t = One => Quat_Equals(conv.out, conv.q2, THRESH_QUAT_NORMALIZED)
        /\ Quat_IsNormalized(conv.out)

\* C15: for all unit q1 and q2, Slerp(q1, q2, 0) equals q1; Slerp(q1, q2, 1)
\* equals q2 when the dot product of q1 and q2 is not negative and -q2, the
\* same rotation, when it is negative; and the result has unit length for
\* every t in [0, 1].  The tolerance is the one of Quat::IsNormalized.
C15_SlerpEnds ==
    (conv.kind = "slerp" /\ conv.done) =>
        /\ conv.t = 0 => Quat_Equals(conv.out, conv.q1, THRESH_QUAT_NORMALIZED)
        /\ (conv.t = One /\ Quat_Dot(conv.q1, conv.q2) >= 0) =>
               Quat_Equals(conv.out, conv.q2, THRESH_QUAT_NORMALIZED)
        /\ (conv.t = One /\ Quat_Dot(conv.q1, conv.q2) < 0) =>
               Quat_Equals(conv.out, Quat_Neg(conv.q2), THRESH_QUAT_NORMALIZED)
        /\ Quat_IsNormalized(conv.out)

\* Slerp ran to t = 1 between two unit quaternions of negative dot product
\* that are neither equal nor opposite, and gave -q2.
C15_Witness ==
    /\ conv.kind = "slerp"
    /\ conv.done
    /\ conv.t = One
    /\ Quat_Dot(conv.q1, conv.q2) < 0
    /\ Abs(Quat_Dot(conv.q1, conv.q2)) < DOT_THRESHOLD
    /\ Quat_Equals(conv.out, Quat_Neg(conv.q2), THRESH_QUAT_NORMALIZED)
    /\ ~Quat_Equals(conv.out, conv.q2, THRESH_QUAT_NORMALIZED)

\* Twice singularityTest = z * x - w * y of Quat::GetRotator.
SingularityTest_X2(q) == 2 * (Mul(q.z, q.x) - Mul(q.w, q.y))

\* The angle the pole branches of Quat::GetRotator take from the yaw:
\* RAD2DEG(2.f * atan2f(x, w)).
PoleTwist(q) == RAD2DEG(2 * Atan2F(q.x, q.w))

\* C16: with t = z * x - w * y, GetRotator gives pitch exactly -90 when
\* t < -0.4999995 and exactly +90 when t > 0.4999995, with the roll reduced
\* by NormalizeAxis in both; otherwise the pitch is asin(2t), whose argument
\* is then at most 0.999999 in magnitude; so the pitch is in [-90, 90] for
\* every quaternion, of unit length or not.
C16_PitchClampedAtPoles ==
    (conv.kind = "getRotator" /\ conv.done) =>
        /\ SingularityTest_X2(conv.q1) < -SINGULARITY_THRESHOLD_X2 =>
               /\ conv.rt.pitch = -90 * Deg
               /\ conv.rt.roll = NormalizeAxis(-conv.rt.yaw - PoleTwist(conv.q1))
               /\ Abs(conv.rt.roll) <= 180 * Deg
        /\ SingularityTest_X2(conv.q1) > SINGULARITY_THRESHOLD_X2 =>
               /\ conv.rt.pitch = 90 * Deg
               /\ conv.rt.roll = NormalizeAxis(conv.rt.yaw - PoleTwist(conv.q1))
               /\ Abs(conv.rt.roll) <= 180 * Deg
        /\ Abs(SingularityTest_X2(conv.q1)) <= SINGULARITY_THRESHOLD_X2 =>
               /\ conv.rt.pitch = RAD2DEG(AsinF(SingularityTest_X2(conv.q1)))
               /\ Abs(conv.rt.pitch) < 90 * Deg
        /\ -90 * Deg <= conv.rt.pitch
        /\ conv.rt.pitch <= 90 * Deg

\* GetRotator ran on a quaternion of length 2 whose 2t is 4, beyond the
\* domain of asin, and gave the pitch 90.
C16_Witness ==
    /\ conv.kind = "getRotator"
    /\ conv.done
    /\ conv.q1 = MkQuat(One, One, -One, One)
    /\ SingularityTest_X2(conv.q1) = 4 * One
    /\ conv.rt.pitch = 90 * Deg

\* The result of Inverse, once computed, is the conjugate of a receiver
\* within the tolerance of normalization and Identity for any other.
InverseIsConjugateOrIdentity ==
    (conv.kind = "inverse" /\ conv.done) =>
        IF Abs(One - Quat_SizeSquared(conv.q1)) < THRESH_QUAT_NORMALIZED
        THEN conv.out = MkQuat(conv.q1.w, -conv.q1.x, -conv.q1.y, -conv.q1.z)
        ELSE conv.out = Identity

\* C17: Quat::Inverse returns the conjugate (w, -x, -y, -z) when the
\* receiver is normalized (|1 - sizeSquared| < 0.01) and Identity for every
\* receiver that is not; it always returns, and the step that computes it
\* leaves the receiver as it was.
C17_InverseConjugateOrIdentity ==
    /\ []InverseIsConjugateOrIdentity
    /\ [][conv.kind = "inverse" => (conv'.done /\ conv'.q1 = conv.q1)]_vars

\* Inverse ran on a receiver of squared length 1.012, just outside the
\* tolerance, and returned Identity; the receiver is not Identity.
C17_Witness ==
    /\ conv.kind = "inverse"
    /\ conv.done
    /\ Quat_SizeSquared(conv.q1) > One + THRESH_QUAT_NORMALIZED
    /\ Quat_SizeSquared(conv.q1) < One + 2 * THRESH_QUAT_NORMALIZED
    /\ conv.q1.x # 0
    /\ conv.out = Identity

\* C18: for every unit quaternion q, q * q.Inverse() equals Identity under
\* Quat::Equals with its default tolerance.
C18_TimesInverseIsIdentity ==
    (conv.kind = "mulInverse" /\ conv.done) =>
        Quat_Equals(conv.out, Identity, KINDA_SMALL_NUMBER)

\* q * q.Inverse() was computed for a unit quaternion with four nonzero
\* components and equals Identity.
C18_Witness ==
    /\ conv.kind = "mulInverse"
    /\ conv.done
    /\ conv.q1.w # 0 /\ conv.q1.x # 0 /\ conv.q1.y # 0 /\ conv.q1.z # 0
    /\ Quat_Equals(conv.out, Identity, KINDA_SMALL_NUMBER)

\* The quaternions a and b point the same way: their dot product is
\* positive and their components are in proportion.
SameDirection(a, b) ==
    /\ Quat_Dot(a, b) > 0
    /\ Abs(Mul(a.w, b.x) - Mul(a.x, b.w)) <= KINDA_SMALL_NUMBER
    /\ Abs(Mul(a.w, b.y) - Mul(a.y, b.w)) <= KINDA_SMALL_NUMBER
    /\ Abs(Mul(a.w, b.z) - Mul(a.z, b.w)) <= KINDA_SMALL_NUMBER
    /\ Abs(Mul(a.x, b.y) - Mul(a.y, b.x)) <= KINDA_SMALL_NUMBER
    /\ Abs(Mul(a.x, b.z) - Mul(a.z, b.x)) <= KINDA_SMALL_NUMBER
    /\ Abs(Mul(a.y, b.z) - Mul(a.z, b.y)) <= KINDA_SMALL_NUMBER

\* C19: Normalize(tolerance) always gives a result.  When the squared
\* length is at least the tolerance, the four components are multiplied by
\* one positive factor, and the result has unit length within the accuracy
\* of the inverse square root (0.2 percent, inside the tolerance of
\* IsNormalized) and the direction of the receiver; below the tolerance the
\* result is exactly Identity.
C19_NormalizeScalesOrResets ==
    (conv.kind = "normalize" /\ conv.done) =>
        IF Quat_SizeSquared(conv.q1) >= conv.t
        THEN /\ InvSqrt(Quat_SizeSquared(conv.q1)) > 0
             /\ conv.out = Quat_Scaled(conv.q1, InvSqrt(Quat_SizeSquared(conv.q1)))
             /\ Quat_IsNormalized(conv.out)
             /\ Abs(One - Quat_SizeSquared(conv.out)) <= 40 * KINDA_SMALL_NUMBER
             /\ SameDirection(conv.out, conv.q1)
        ELSE conv.out = Identity

\* Normalize with the default tolerance ran on a quaternion of length 2
\* with four nonzero components and gave a quaternion of unit length.
C19_Witness ==
    /\ conv.kind = "normalize"
    /\ conv.done
    /\ conv.t = SMALL_NUMBER
    /\ conv.q1 = MkQuat(One, -One, One, -One)
    /\ Quat_IsNormalized(conv.out)
    /\ conv.out # conv.q1

\* C20: for all unit quaternions A and B and every vector v,
\* (A * B).RotateVector(v) equals A.RotateVector(B.RotateVector(v)) within
\* tolerance: the product applies B first, then A.
C20_ProductAppliesRightFirst ==
    (conv.kind = "compose" /\ conv.done) =>
        VecEquals(conv.vq, conv.vm, KINDA_SMALL_NUMBER)

\* Two unit quaternions that do not commute were composed and applied to
\* a vector: the two results agree, and differ from B applied after A.
C20_Witness ==
    /\ conv.kind = "compose"
    /\ conv.done
    /\ VecEquals(conv.vq, conv.vm, KINDA_SMALL_NUMBER)
    /\ ~VecEquals(conv.vq,
                  Quat_RotateVector(conv.q2, Quat_RotateVector(conv.q1, conv.v1)),
                  100 * KINDA_SMALL_NUMBER)

(***************************************************************************)
(* The functions of Rotator that return a value.  The receiver of a member *)
(* function is the local rotator, object 0.                                *)
(***************************************************************************)
\* A variant of Rotator::Combine that multiplies the quaternions in the
\* opposite order.
Rotator_Combine_Exchanged(A, B) ==
    GetRotator(Quat_Mul(Quaternion(B), Quaternion(A)))

\* Rotator::Combine(const Rotator& A, const Rotator& B), static.
Rotator_Combine(A, B) == GetRotator(Quat_Mul(Quaternion(A), Quaternion(B)))

\* Rotator::operator+ const.
Rotator_Plus(a, r) == MkRotator(a.pitch + r.pitch, a.yaw + r.yaw, a.roll + r.roll)

\* Rotator::Combine(const Rotator& R), the member function on object i: it
\* returns Rotator::Combine(*this, R) and writes nothing.
Rotator_CombineMember(H, i, R) ==
    [heap |-> H, result |-> Rotator_Combine(H.rot[i], R)]

\* The rotators combined.
CombineRotators ==
    UnitRotators \cup { MkRotator(90 * Deg, 0, 0), MkRotator(-30 * Deg, 45 * Deg, 170 * Deg) }

MkRotOp(kind, a, b, v) ==
    [kind |-> kind, a |-> a, b |-> b, v |-> v, done |-> FALSE,
     rt |-> ZeroRotator, sum |-> ZeroRotator, vq |-> << 0, 0, 0 >>]

RotOpInputs ==
    { MkRotOp(kind, a, b, v) : kind \in { "combine", "combineMember" },
                               a \in CombineRotators, b \in CombineRotators,
                               v \in UnitVectors }

InitRotOp ==
    /\ conv \in RotOpInputs
    /\ quat = InitHeap.quat
    /\ rot = [InitHeap.rot EXCEPT ![0] = conv.a]
    /\ tf = InitHeap.tf
    /\ last = [op |-> "Init", i |-> 0, arg |-> 0]
    /\ steps = 0

\* Rotator::Combine(A, B) and A + B, and the vector the combined rotator's
\* quaternion takes v to.
RotatorCombine ==
    /\ conv.kind = "combine"
    /\ ~conv.done
    /\ conv' = [conv EXCEPT
                   !.done = TRUE,
                   !.rt = Rotator_Combine(conv.a, conv.b),
                   !.sum = Rotator_Plus(conv.a, conv.b),
                   !.vq = Quat_RotateVector(Quaternion(Rotator_Combine(conv.a, conv.b)),
                                            conv.v)]
    /\ UNCHANGED << quat, rot, tf, last, steps >>

\* r.Combine(R) on the local rotator r.
RotatorCombineMember ==
    /\ conv.kind = "combineMember"
    /\ ~conv.done
    /\ conv' = [conv EXCEPT !.done = TRUE,
                            !.rt = Rotator_CombineMember(Heap, 0, conv.b).result]
    /\ quat' = Rotator_CombineMember(Heap, 0, conv.b).heap.quat
    /\ rot' = Rotator_CombineMember(Heap, 0, conv.b).heap.rot
    /\ tf' = Rotator_CombineMember(Heap, 0, conv.b).heap.tf
    /\ UNCHANGED << last, steps >>

NextRotOp == RotatorCombine \/ RotatorCombineMember

SpecRotOp == InitRotOp /\ [][NextRotOp]_vars

\* The vector v after the rotation of B, then the rotation of A.
RightThenLeft(A, B, v) ==
    Quat_RotateVector(Quaternion(A), Quat_RotateVector(Quaternion(B), v))

\* Combine(A, B), once computed, is the rotator of the product of the
\* quaternions, rotates as B first and then A, and A + B is the sum angle
\* by angle.
CombineIsProduct ==
    (conv.kind = "combine" /\ conv.done) =>
        /\ conv.rt = GetRotator(Quat_Mul(Quaternion(conv.a), Quaternion(conv.b)))
        /\ VecEquals(conv.vq, RightThenLeft(conv.a, conv.b, conv.v),
                     10 * KINDA_SMALL_NUMBER)
        /\ conv.sum.pitch = conv.a.pitch + conv.b.pitch
        /\ conv.sum.yaw = conv.a.yaw + conv.b.yaw
        /\ conv.sum.roll = conv.a.roll + conv.b.roll

C29_CombineMemberSetsReceiver ==
    (conv.kind = "combineMember" /\ conv.done) =>
        /\ Rotator_Equals(rot[0], conv.rt, AngleTolerance)
        /\ VecEquals(Quat_RotateVector(Quaternion(rot[0]), conv.v),
                     RightThenLeft(conv.b, conv.a, conv.v),
                     10 * KINDA_SMALL_NUMBER)

(***************************************************************************)
(* Transform::Serialize and Transform::Deserialize.  A file is a sequence  *)
(* of lines and its read position is the index of the next line.  A line   *)
(* is its text up to and including the first colon (label), whether white  *)
(* space follows the label (space), and the texts that follow (body).  The *)
(* text of a float is the value it denotes: operator<< writes six          *)
(* significant digits.  The Tag of Transform t is conv.tag[t].             *)
(***************************************************************************)
\* The power of ten that holds the digits of 0 <= x beyond the sixth.
RECURSIVE Beyond6(_)
Beyond6(x) == IF x < 1000000 THEN 1 ELSE 10 * Beyond6(x \div 10)

\* operator<<(float) read back by stof or operator>>: the value rounded to
\* six significant digits.
Format6(x) ==
    Sgn(x) * (((Abs(x) + Beyond6(Abs(x)) \div 2) \div Beyond6(Abs(x))) * Beyond6(Abs(x)))

HeaderLine == [label |-> "[TRANSFORM]", space |-> FALSE, body |-> << >>]

\* file << "TAG:" << Tag.
TagLine(tag) == [label |-> "TAG:", space |-> FALSE, body |-> << tag >>]

\* file << "POSITION:" << x << "," << y << "," << z, and the same for SCALE.
VecLine(label, v) ==
    [label |-> label, space |-> FALSE,
     body |-> << Format6(v[1]), Format6(v[2]), Format6(v[3]) >>]

\* A variant of the ROTATION line that writes the yaw before the pitch.
RotationLine_YawFirst(r) ==
    [label |-> "ROTATION:", space |-> TRUE,
     body |-> << Format6(r.yaw), Format6(r.pitch), Format6(r.roll) >>]

\* file << "ROTATION: " << pitch << " " << yaw << " " << roll.
RotationLine(r) ==
    [label |-> "ROTATION:", space |-> TRUE,
     body |-> << Format6(r.pitch), Format6(r.yaw), Format6(r.roll) >>]

\* Transform::Serialize of Transform t appended to file.
Transform_Serialize(H, t, tag, file) ==
    file \o << HeaderLine, TagLine(tag), VecLine("POSITION:", H.tf[t].position),
               VecLine("SCALE:", H.tf[t].scale), RotationLine(H.rot[t]) >>

\* is >> tmp: the first token of a line, the label alone when white space
\* or nothing follows it, else the label with the text glued to it.
FirstToken(line) ==
    IF line.space \/ line.body = << >> THEN << line.label >>
    ELSE << line.label, line.body[1] >>

\* A variant of the legacy return that leaves the read position after the
\* line it read.
Deserialize_Legacy_NoSeek(H, tag, t0) == [heap |-> H, tag |-> tag, pos |-> t0 + 1]

\* The legacy return of Transform::Deserialize: file.seekg(t); return.
Deserialize_Legacy(H, tag, t0) == [heap |-> H, tag |-> tag, pos |-> t0]

\* is >> rotator.pitch >> rotator.yaw >> rotator.roll;
\* rotator.UpdateBoundTransform(); UpdateMtx().
Deserialize_Rotation(H, t, tag, t0, body) ==
    [heap |-> UpdateMtx(
                  Rotator_UpdateBoundTransform(
                      SetRotFields(H, t, MkRotator(body[1], body[2], body[3])), t), t),
     tag |-> tag, pos |-> t0 + 1]

\* Transform::Deserialize from the line after SCALE on, at position t0; H
\* holds the position and scale already read.
Deserialize_FromRotation(H, t, tag, file, t0) ==
    IF FirstToken(file[t0]) # << "ROTATION:" >>
    THEN Deserialize_Legacy(H, tag, t0)
    ELSE Deserialize_Rotation(H, t, tag, t0, file[t0].body)

\* Transform::Deserialize into Transform t with the read position at the
\* TAG line: Tag, position and scale are assigned field by field.
Transform_Deserialize(H, t, file, pos) ==
    Deserialize_FromRotation(
        [H EXCEPT !.tf[t].position = file[pos + 1].body,
                  !.tf[t].scale = file[pos + 2].body],
        t, file[pos].body[1], file, pos + 3)

\* The positions, scales, rotators and tags of the Transform written.
FilePositions == { << 0, 0, 0 >>, << 123456789, -(One \div 3), 5 * One >> }
FileScales == { << One, One, One >>, << 2 * One, One \div 2, 123456789 >> }
FileRotators ==
    { ZeroRotator,
      MkRotator(12500000, -45 * Deg, 0),
      MkRotator(12345679, 179999990, -90 * Deg) }
FileTags == { "", "NoSave Plant" }

\* A line that is not a ROTATION line: the header of the next component,
\* an empty line, and a line whose first token only starts with ROTATION:.
OtherLines ==
    { [label |-> "[COLLIDER]", space |-> FALSE, body |-> << >>],
      [label |-> "", space |-> FALSE, body |-> << >>],
      [label |-> "ROTATION:", space |-> FALSE, body |-> << 90 * Deg, 0, 0 >>] }

\* Save files written before the rotation was saved.
LegacyFiles ==
    { << HeaderLine, TagLine("Plant"), VecLine("POSITION:", << One, 2 * One, 3 * One >>),
         VecLine("SCALE:", << 2 * One, 2 * One, 2 * One >>), other >> :
          other \in OtherLines }

\* Transform 1 after its construction, SetPosition, SetScale and the
\* assignment of its rotator.
FileHeap(p, sc, r) ==
    Rotator_Assign(Transform_SetScale(Transform_SetPosition(InitHeap, 1, p), 1, sc),
                   1, r)

MkFile(tag, file) ==
    [kind |-> "file", tag |-> [t \in Transforms |-> IF t = 1 THEN tag ELSE ""],
     file |-> file, pos |-> 1, reads |-> 0, target |-> 0, legacy |-> FALSE,
     linepos |-> 0]

InitFile ==
    /\ \E p \in FilePositions, sc \in FileScales, r \in FileRotators :
           /\ quat = FileHeap(p, sc, r).quat
           /\ rot = FileHeap(p, sc, r).rot
           /\ tf = FileHeap(p, sc, r).tf
    /\ conv \in { MkFile(tag, file) : tag \in FileTags,
                                       file \in { << >> } \cup LegacyFiles }
    /\ last = [op |-> "Init", i |-> 0, arg |-> 0]
    /\ steps = 0

\* Transform 1 is serialized into the empty file.
FileSerialize ==
    /\ conv.kind = "file"
    /\ conv.file = << >>
    /\ conv' = [conv EXCEPT !.file = Transform_Serialize(Heap, 1, conv.tag[1], << >>)]
    /\ UNCHANGED << quat, rot, tf, last, steps >>

\* Transform 2 is constructed.
FileConstruct ==
    /\ conv.kind = "file"
    /\ ~tf[2].alive
    /\ quat' = Transform_Construct(Heap, 2).quat
    /\ rot' = Transform_Construct(Heap, 2).rot
    /\ tf' = Transform_Construct(Heap, 2).tf
    /\ UNCHANGED << conv, last, steps >>

\* The caller reads the [TRANSFORM] line.
FileReadHeader ==
    /\ conv.kind = "file"
    /\ conv.pos = 1
    /\ Len(conv.file) >= 1
    /\ conv.file[1] = HeaderLine
    /\ conv' = [conv EXCEPT !.pos = 2]
    /\ UNCHANGED << quat, rot, tf, last, steps >>

\* t.Deserialize(file, input), the read position at the TAG line.
FileDeserialize(t) ==
    /\ conv.kind = "file"
    /\ tf[t].alive
    /\ conv.pos = 2
    /\ conv.reads = 0
    /\ Len(conv.file) >= 5
    /\ quat' = Transform_Deserialize(Heap, t, conv.file, 2).heap.quat
    /\ rot' = Transform_Deserialize(Heap, t, conv.file, 2).heap.rot
    /\ tf' = Transform_Deserialize(Heap, t, conv.file, 2).heap.tf
    /\ conv' = [conv EXCEPT
                   !.tag[t] = Transform_Deserialize(Heap, t, conv.file, 2).tag,
                   !.pos = Transform_Deserialize(Heap, t, conv.file, 2).pos,
                   !.reads = 1,
                   !.target = t,
                   !.legacy = (FirstToken(conv.file[5]) # << "ROTATION:" >>),
                   !.linepos = 5]
    /\ UNCHANGED << last, steps >>

NextFile ==
    \/ FileSerialize
    \/ FileConstruct
    \/ FileReadHeader
    \/ \E t \in Transforms : FileDeserialize(t)

SpecFile == InitFile /\ [][NextFile]_vars

\* C22: when the line after the SCALE line does not begin with the token
\* ROTATION:, Deserialize returns with the read position at the start of
\* that line, and with the rotator and the quaternion of every Transform as
\* they were before the call: Identity and zero for a fresh Transform.
C22_LegacyFileKeepsRotation ==
    [][(conv'.reads = conv.reads + 1
          /\ FirstToken(conv.file[5]) # << "ROTATION:" >>)
       => (/\ conv'.pos = 5
           /\ conv'.file = conv.file
           /\ rot' = rot
           /\ quat' = quat)]_vars

\* A fresh Transform read a file without a ROTATION line: the read
\* position is at the line after SCALE, the position and scale are the
\* ones of the file, and the rotation is the identity.
C22_Witness ==
    /\ conv.kind = "file"
    /\ conv.reads = 1
    /\ conv.legacy
    /\ conv.target = 2
    /\ conv.pos = 5
    /\ conv.file[5].label = "[COLLIDER]"
    /\ tf[2].position = << One, 2 * One, 3 * One >>
    /\ rot[2] = [ZeroRotator EXCEPT !.bound = 2]
    /\ quat[2] = [Identity EXCEPT !.bound = 2]

\* a is b within the precision of a text of six significant digits.
WithinText(a, b) == Abs(a - b) <= Abs(b) \div 200000 + 1

\* The vectors agree component by component within text precision.
VecWithinText(a, b) ==
    /\ WithinText(a[1], b[1])
    /\ WithinText(a[2], b[2])
    /\ WithinText(a[3], b[3])

\* Transform 2, fresh, has read the text that Transform 1 wrote.
ReadBack ==
    /\ conv.kind = "file"
    /\ conv.reads = 1
    /\ conv.target = 2
    /\ conv.file = Transform_Serialize(Heap, 1, conv.tag[1], << >>)

\* C23: the text written by T.Serialize and read by Deserialize into a
\* fresh Transform, after the caller has read the [TRANSFORM] line, gives a
\* rotator equal to the rotator of T within text precision, a quaternion
\* equal to Quaternion() of that rotator, and the tag, position and scale
\* of T.
C23_SerializeRoundTrip ==
    ReadBack =>
        /\ WithinText(rot[2].pitch, rot[1].pitch)
        /\ WithinText(rot[2].yaw, rot[1].yaw)
        /\ WithinText(rot[2].roll, rot[1].roll)
        /\ quat[2] = [Quaternion(rot[2]) EXCEPT !.bound = 2]
        /\ conv.tag[2] = conv.tag[1]
        /\ VecWithinText(tf[2].position, tf[1].position)
        /\ VecWithinText(tf[2].scale, tf[1].scale)

\* A Transform with the rotator (12.345679, 179.99999, -90) and a tag of
\* two words was written and read back: the pitch came back as 12.3457.
C23_Witness ==
    /\ ReadBack
    /\ rot[1].pitch = 12345679
    /\ rot[2].pitch = 12345700
    /\ rot[2].yaw = 180 * Deg
    /\ rot[2].roll = -90 * Deg
    /\ conv.tag[2] = "NoSave Plant"
    /\ tf[2].position[1] = 123457000

\* C25: when Deserialize has returned, with or without a ROTATION line in
\* the file, the matrix of the Transform is composed from the position and
\* scale just read and the current rotator.
C25_MtxComposedAfterDeserialize ==
    (conv.kind = "file" /\ conv.reads = 1) =>
        Mtx44Equals(tf[conv.target].mtx, Composed(conv.target), KINDA_SMALL_NUMBER)


(***************************************************************************)
(* Notifications of one mutating call.                                     *)
(***************************************************************************)
\* The calls =, +=, -=, *=, /= and Add on a Quat or a Rotator.
OwnerUpdatingCalls ==
    { "Quat_Assign", "Quat_AddAssign", "Quat_SubAssign", "Quat_MulAssign",
      "Quat_ScaleAssign", "Quat_DivAssign", "Rotator_Assign",
      "Rotator_AddAssign", "Rotator_SubAssign", "Rotator_ScaleAssign",
      "Rotator_Add" }

\* C27: one call of =, +=, -=, *=, /= or Add on the rotation or the rotator
\* of Transform 1 raises the Transform's count of matrix compositions and
\* notifications by exactly one.
C27_MutationNotifiesOnce ==
    [][(steps' = steps + 1 /\ last'.op \in OwnerUpdatingCalls)
          => tf'[1].notified = tf[1].notified + 1]_vars


(***************************************************************************)
(* The two ways of copying a Transform.                                    *)
(***************************************************************************)
TransformCopies == { "Transform_CopyConstruct", "Transform_CopyAssign" }

\* The rotator and the quaternion of Transform t have the values of those
\* of Transform s, field by field, within KINDA_SMALL_NUMBER.
SameRotationValues(t, s) ==
    /\ \A k \in 1..3 :
           Abs(RotFields(rot[t])[k] - RotFields(rot[s])[k]) <= KINDA_SMALL_NUMBER
    /\ \A k \in 1..4 :
           Abs(QuatFields(quat[t])[k] - QuatFields(quat[s])[k]) <= KINDA_SMALL_NUMBER

\* C30: a Transform copy-constructed from S and a Transform copy-assigned
\* from S both end with the rotator and the quaternion values of S, hence
\* with identical values, and the copy leaves S as it was.
C30_CopiesKeepRotationValues ==
    /\ [](last.op \in TransformCopies /\ last.i # last.arg
             => SameRotationValues(last.i, last.arg))
    /\ [][(steps' = steps + 1 /\ last'.op \in TransformCopies
             /\ last'.i # last'.arg)
            => (rot'[last'.arg] = rot[last'.arg]
                /\ quat'[last'.arg] = quat[last'.arg]
                /\ tf'[last'.arg] = tf[last'.arg])]_vars


(***************************************************************************)
(* Transform::Clone.                                                       *)
(***************************************************************************)
\* C26: the Transform that Clone returns has the position, the scale, the
\* rotator and the quaternion of the Transform it was called on, its two
\* representations are bound to the clone, and the source is unchanged.
C26_CloneCopiesRotation ==
    /\ [](last.op = "Transform_Clone"
             => /\ tf[last.i].position = tf[last.arg].position
                /\ tf[last.i].scale = tf[last.arg].scale
                /\ SameRotationValues(last.i, last.arg)
                /\ rot[last.i].bound = last.i
                /\ quat[last.i].bound = last.i)
    /\ [][(steps' = steps + 1 /\ last'.op = "Transform_Clone")
            => (rot'[last'.arg] = rot[last'.arg]
                /\ quat'[last'.arg] = quat[last'.arg]
                /\ tf'[last'.arg] = tf[last'.arg])]_vars


(***************************************************************************)
(* The tag system of Transform.  A std::string is the sequence of its      *)
(* characters; positions count from 1, and 0 stands for npos.              *)
(***************************************************************************)
\* std::string::find(target): the first position where target occurs in
\* str, or 0.
StringFind(str, target) ==
    IF \E p \in 1..(Len(str) - Len(target) + 1) :
           SubSeq(str, p, p + Len(target) - 1) = target
    THEN CHOOSE p \in 1..(Len(str) - Len(target) + 1) :
             /\ SubSeq(str, p, p + Len(target) - 1) = target
             /\ \A r \in 1..(p - 1) : SubSeq(str, r, r + Len(target) - 1) # target
    ELSE 0

\* std::string::replace(pos, len, ""): up to len characters from pos on
\* are erased.
StringErase(str, pos, len) ==
    SubSeq(str, 1, pos - 1)
        \o (IF pos + len > Len(str) THEN << >> ELSE SubSeq(str, pos + len, Len(str)))

\* Transform::HasTag.
Transform_HasTag(Tag, target) == StringFind(Tag, target) # 0

\* Transform::AddTag; the value of Tag after the call.
Transform_AddTagSecond(Tag, newTag) ==
    IF ~Transform_HasTag(Tag, newTag) THEN Tag \o << " " >> \o newTag ELSE Tag

Transform_AddTag(Tag, newTag) ==
    Transform_AddTagSecond(IF Tag = << >> THEN newTag ELSE Tag, newTag)

\* The end of Transform::RemoveTag: a trailing blank is popped.
PopTrailingBlank(Tag) ==
    IF Tag # << >> /\ Tag[Len(Tag)] = " " THEN SubSeq(Tag, 1, Len(Tag) - 1) ELSE Tag

\* Transform::RemoveTag; the value of Tag after the call.
Transform_RemoveTag(Tag, target) ==
    IF StringFind(Tag, target) = 0 THEN Tag
    ELSE PopTrailingBlank(StringErase(Tag, StringFind(Tag, target), Len(target) + 1))

\* SplitTags of Transform.cpp: the words of tags between blanks.
RECURSIVE SplitTags(_)
SplitTags(tags) ==
    IF tags = << >> THEN << >>
    ELSE IF Head(tags) = " " THEN SplitTags(Tail(tags))
    ELSE IF StringFind(tags, << " " >>) = 0 THEN << tags >>
    ELSE << SubSeq(tags, 1, StringFind(tags, << " " >>) - 1) >>
             \o SplitTags(SubSeq(tags, StringFind(tags, << " " >>), Len(tags)))

\* Tags a game adds and removes: non-empty and free of blanks.
TagNames ==
    { << "P", "l", "a", "n", "t" >>, << "P", "l", "a", "n", "t", "s" >>,
      << "N", "o", "S", "a", "v", "e" >>, << "a", "n" >> }

\* AddTag and RemoveTag calls in one run.
MaxTagCalls == 3

\* The tag machine: Tag is the member, present the tags added and not
\* removed since.
MkTags(Tag, present, calls) ==
    [kind |-> "tags", Tag |-> Tag, present |-> present, calls |-> calls]

InitTags ==
    /\ quat = InitHeap.quat
    /\ rot = InitHeap.rot
    /\ tf = InitHeap.tf
    /\ last = [op |-> "Init", i |-> 0, arg |-> 0]
    /\ steps = 0
    /\ conv = MkTags(<< >>, {}, 0)

TagsAddTag(t) ==
    /\ conv.calls < MaxTagCalls
    /\ conv' = MkTags(Transform_AddTag(conv.Tag, t), conv.present \cup {t},
                      conv.calls + 1)
    /\ last' = [op |-> "AddTag", i |-> 1, arg |-> t]
    /\ UNCHANGED << quat, rot, tf, steps >>

TagsRemoveTag(t) ==
    /\ conv.calls < MaxTagCalls
    /\ conv' = MkTags(Transform_RemoveTag(conv.Tag, t), conv.present \ {t},
                      conv.calls + 1)
    /\ last' = [op |-> "RemoveTag", i |-> 1, arg |-> t]
    /\ UNCHANGED << quat, rot, tf, steps >>

NextTags ==
    \/ \E t \in TagNames : TagsAddTag(t)
    \/ \E t \in TagNames : TagsRemoveTag(t)

SpecTags == InitTags /\ [][NextTags]_vars

\* How often the word t occurs among the words of Tag.
TagOccurrences(Tag, t) ==
    Cardinality({ k \in 1..Len(SplitTags(Tag)) : SplitTags(Tag)[k] = t })

\* C28: after any AddTag and RemoveTag calls with non-empty, blank-free
\* tags, HasTag(t) is true exactly for the tags added and not removed
\* since, and each of those is one word of Tag, once, while no other tag is
\* a word of Tag.
C28_TagsBehaveAsSet ==
    \A t \in TagNames :
        /\ Transform_HasTag(conv.Tag, t) <=> t \in conv.present
        /\ TagOccurrences(conv.Tag, t) = IF t \in conv.present THEN 1 ELSE 0


(***************************************************************************)
(* Non-finite floats.  A float is finite with a value, a NaN, or an        *)
(* infinity with a sign; the operators below are the IEEE 754 rules for    *)
(* them, with the fixed-point arithmetic above on the finite values.       *)
(***************************************************************************)
Fin(v) == [c |-> "fin", v |-> v]
NaN == [c |-> "nan", v |-> 0]
Inf(sign) == [c |-> "inf", v |-> sign]

\* Math::IsFinite.
IsFinite(x) == x.c = "fin"

IeeeNeg(a) == [a EXCEPT !.v = -@]

\* a + b: opposite infinities give a NaN.
IeeeAdd(a, b) ==
    IF a.c = "nan" \/ b.c = "nan" THEN NaN
    ELSE IF a.c = "inf" THEN (IF b.c = "inf" /\ b.v # a.v THEN NaN ELSE a)
    ELSE IF b.c = "inf" THEN b
    ELSE Fin(a.v + b.v)

\* a * b: an infinity times zero gives a NaN.
IeeeMul(a, b) ==
    IF a.c = "nan" \/ b.c = "nan" THEN NaN
    ELSE IF a.c = "inf" \/ b.c = "inf"
    THEN (IF Sgn(a.v) * Sgn(b.v) = 0 THEN NaN ELSE Inf(Sgn(a.v) * Sgn(b.v)))
    ELSE Fin(Mul(a.v, b.v))

\* a / b, a zero divisor being +0: inf / inf and 0 / 0 give a NaN.
IeeeDiv(a, b) ==
    IF a.c = "nan" \/ b.c = "nan" THEN NaN
    ELSE IF a.c = "inf"
    THEN (IF b.c = "inf" THEN NaN ELSE Inf(IF b.v < 0 THEN -a.v ELSE a.v))
    ELSE IF b.c = "inf" THEN Fin(0)
    ELSE IF b.v = 0 THEN (IF a.v = 0 THEN NaN ELSE Inf(Sgn(a.v)))
    ELSE Fin(Div(a.v, b.v))

\* a >= b: false when either is a NaN.
IeeeGe(a, b) ==
    /\ a.c # "nan"
    /\ b.c # "nan"
    /\ IF a.c = "inf" /\ a.v > 0 THEN TRUE
       ELSE IF b.c = "inf" /\ b.v < 0 THEN TRUE
       ELSE IF a.c = "inf" \/ b.c = "inf" THEN FALSE
       ELSE a.v >= b.v

\* Math::InvSqrt of a sum of squares.  For +infinity the bit pattern
\* 0x5f3759df - (0x7f800000 >> 1) is a small positive float f, and
\* f * (1.5 - (inf * f * f)) is -infinity.
IeeeInvSqrt(num) == IF num.c = "inf" THEN Inf(-1) ELSE Fin(InvSqrt(num.v))

\* Quat::Identity and Rotator::ZeroRotator, and values outside a Transform.
IeeeQuat(w, x, y, z) == [w |-> w, x |-> x, y |-> y, z |-> z]
IeeeRotator(pitch, yaw, roll) == [pitch |-> pitch, yaw |-> yaw, roll |-> roll]
IeeeIdentity == IeeeQuat(Fin(One), Fin(0), Fin(0), Fin(0))
IeeeZeroRotator == IeeeRotator(Fin(0), Fin(0), Fin(0))

\* Quat::ContainsNaN and Rotator::ContainsNaN.
Quat_ContainsNaN(q) ==
    ~IsFinite(q.x) \/ ~IsFinite(q.y) \/ ~IsFinite(q.z) \/ ~IsFinite(q.w)
Rotator_ContainsNaN(r) ==
    ~IsFinite(r.pitch) \/ ~IsFinite(r.yaw) \/ ~IsFinite(r.roll)

\* A variant of Quat::DiagnosticCheckNaN that is compiled in whatever the
\* flag says.
Quat_DiagnosticCheckNaN_Always(enabled, q) ==
    IF Quat_ContainsNaN(q) THEN IeeeIdentity ELSE q

\* Quat::DiagnosticCheckNaN under #if ENABLE_NAN_CHECK, `enabled` being the
\* flag: the value of the checked quaternion after the call.
Quat_DiagnosticCheckNaN(enabled, q) ==
    IF enabled /\ Quat_ContainsNaN(q) THEN IeeeIdentity ELSE q

\* Rotator::DiagnosticCheckNaN under #if ENABLE_NAN_CHECK.
Rotator_DiagnosticCheckNaN(enabled, r) ==
    IF enabled /\ Rotator_ContainsNaN(r) THEN IeeeZeroRotator ELSE r

\* The fields Quat::operator+=, -=, *=(float) and /=(float) write before
\* their DiagnosticCheckNaN.
IeeeQuat_Plus(a, q) ==
    IeeeQuat(IeeeAdd(a.w, q.w), IeeeAdd(a.x, q.x), IeeeAdd(a.y, q.y),
             IeeeAdd(a.z, q.z))
IeeeQuat_Minus(a, q) ==
    IeeeQuat(IeeeAdd(a.w, IeeeNeg(q.w)), IeeeAdd(a.x, IeeeNeg(q.x)),
             IeeeAdd(a.y, IeeeNeg(q.y)), IeeeAdd(a.z, IeeeNeg(q.z)))
IeeeQuat_Times(a, scale) ==
    IeeeQuat(IeeeMul(a.w, scale), IeeeMul(a.x, scale), IeeeMul(a.y, scale),
             IeeeMul(a.z, scale))
IeeeQuat_Over(a, scale) ==
    IeeeQuat(IeeeDiv(a.w, scale), IeeeDiv(a.x, scale), IeeeDiv(a.y, scale),
             IeeeDiv(a.z, scale))

\* squareSum of Quat::Normalize.
IeeeSquareSum(a) ==
    IeeeAdd(IeeeAdd(IeeeAdd(IeeeMul(a.w, a.w), IeeeMul(a.x, a.x)),
                    IeeeMul(a.y, a.y)), IeeeMul(a.z, a.z))

\* Quat::Normalize, which calls no DiagnosticCheckNaN: a NaN squareSum
\* fails `squareSum >= tolerance` and takes the branch of Quat::Identity.
IeeeQuat_Normalize(a, tolerance) ==
    IF IeeeGe(IeeeSquareSum(a), Fin(tolerance))
    THEN IeeeQuat_Times(a, IeeeInvSqrt(IeeeSquareSum(a)))
    ELSE IeeeIdentity

\* The fields Rotator::operator+=, -= and *=(float) write before their
\* DiagnosticCheckNaN.
IeeeRotator_Plus(a, r) ==
    IeeeRotator(IeeeAdd(a.pitch, r.pitch), IeeeAdd(a.yaw, r.yaw),
                IeeeAdd(a.roll, r.roll))
IeeeRotator_Minus(a, r) ==
    IeeeRotator(IeeeAdd(a.pitch, IeeeNeg(r.pitch)), IeeeAdd(a.yaw, IeeeNeg(r.yaw)),
                IeeeAdd(a.roll, IeeeNeg(r.roll)))
IeeeRotator_Times(a, scale) ==
    IeeeRotator(IeeeMul(a.pitch, scale), IeeeMul(a.yaw, scale),
                IeeeMul(a.roll, scale))

\* Calls on one object in one run.
MaxNanCalls == 2

\* Quaternions and rotators with a NaN or an infinity in some field, and
\* finite ones; arguments whose infinity is opposite to the object's.
NanQuats ==
    { IeeeIdentity,
      IeeeQuat(Fin(One \div 2), Fin(One \div 2), Fin(One \div 2), Fin(One \div 2)),
      [IeeeIdentity EXCEPT !.x = NaN], [IeeeIdentity EXCEPT !.w = NaN],
      [IeeeIdentity EXCEPT !.z = Inf(1)], [IeeeIdentity EXCEPT !.y = Inf(-1)] }
NanQuatArgs == { IeeeIdentity, [IeeeIdentity EXCEPT !.z = Inf(-1)] }
NanRotators ==
    { IeeeZeroRotator, IeeeRotator(Fin(30 * Deg), Fin(0), Fin(-90 * Deg)),
      [IeeeZeroRotator EXCEPT !.pitch = NaN], [IeeeZeroRotator EXCEPT !.yaw = Inf(1)],
      [IeeeZeroRotator EXCEPT !.roll = Inf(-1)] }
NanRotatorArgs ==
    { IeeeRotator(Fin(30 * Deg), Fin(0), Fin(0)), [IeeeZeroRotator EXCEPT !.yaw = Inf(-1)] }
NanScales == { Fin(0), Fin(One \div 2) }

\* The object under test: the build's flag, the object before the last
\* call, the fields the call wrote before its check, and the object now.
MkNan(enabled, class, op, prev, raw, val, calls) ==
    [kind |-> "nan", enabled |-> enabled, class |-> class, op |-> op,
     prev |-> prev, raw |-> raw, val |-> val, calls |-> calls]

NanInputs ==
    { MkNan(e, "quat", "Init", q, q, q, 0) : e \in BOOLEAN, q \in NanQuats }
    \cup { MkNan(e, "rotator", "Init", r, r, r, 0) : e \in BOOLEAN, r \in NanRotators }

InitNan ==
    /\ quat = InitHeap.quat
    /\ rot = InitHeap.rot
    /\ tf = InitHeap.tf
    /\ last = [op |-> "Init", i |-> 0, arg |-> 0]
    /\ steps = 0
    /\ conv \in NanInputs

\* A call that writes raw and then runs DiagnosticCheckNaN on the object.
NanQuatChecked(op, raw) ==
    /\ conv.class = "quat"
    /\ conv.calls < MaxNanCalls
    /\ conv' = MkNan(conv.enabled, "quat", op, conv.val, raw,
                     Quat_DiagnosticCheckNaN(conv.enabled, raw), conv.calls + 1)
    /\ UNCHANGED << quat, rot, tf, last, steps >>

NanRotatorChecked(op, raw) ==
    /\ conv.class = "rotator"
    /\ conv.calls < MaxNanCalls
    /\ conv' = MkNan(conv.enabled, "rotator", op, conv.val, raw,
                     Rotator_DiagnosticCheckNaN(conv.enabled, raw), conv.calls + 1)
    /\ UNCHANGED << quat, rot, tf, last, steps >>

NanQuatCheck == NanQuatChecked("DiagnosticCheckNaN", conv.val)
NanQuatAddAssign(q) == NanQuatChecked("Quat_AddAssign", IeeeQuat_Plus(conv.val, q))
NanQuatSubAssign(q) == NanQuatChecked("Quat_SubAssign", IeeeQuat_Minus(conv.val, q))
NanQuatScaleAssign(scale) ==
    NanQuatChecked("Quat_ScaleAssign", IeeeQuat_Times(conv.val, scale))
NanQuatDivAssign(scale) ==
    NanQuatChecked("Quat_DivAssign", IeeeQuat_Over(conv.val, scale))

\* Math::InvSqrt is computed for a finite squareSum in [1/64, 20).
NanNormalizeInRange(squareSum) ==
    \/ ~IsFinite(squareSum)
    \/ squareSum.v < SMALL_NUMBER
    \/ (squareSum.v >= One \div 64 /\ squareSum.v < 20 * One)

NanQuatNormalize ==
    /\ conv.class = "quat"
    /\ conv.calls < MaxNanCalls
    /\ NanNormalizeInRange(IeeeSquareSum(conv.val))
    /\ conv' = MkNan(conv.enabled, "quat", "Quat_Normalize", conv.val,
                     IeeeQuat_Normalize(conv.val, SMALL_NUMBER),
                     IeeeQuat_Normalize(conv.val, SMALL_NUMBER), conv.calls + 1)
    /\ UNCHANGED << quat, rot, tf, last, steps >>

NanRotatorCheck == NanRotatorChecked("DiagnosticCheckNaN", conv.val)
NanRotatorAddAssign(r) ==
    NanRotatorChecked("Rotator_AddAssign", IeeeRotator_Plus(conv.val, r))
NanRotatorSubAssign(r) ==
    NanRotatorChecked("Rotator_SubAssign", IeeeRotator_Minus(conv.val, r))
NanRotatorScaleAssign(scale) ==
    NanRotatorChecked("Rotator_ScaleAssign", IeeeRotator_Times(conv.val, scale))

NextNan ==
    \/ NanQuatCheck
    \/ \E q \in NanQuatArgs : NanQuatAddAssign(q)
    \/ \E q \in NanQuatArgs : NanQuatSubAssign(q)
    \/ \E scale \in NanScales : NanQuatScaleAssign(scale)
    \/ \E scale \in NanScales : NanQuatDivAssign(scale)
    \/ NanQuatNormalize
    \/ NanRotatorCheck
    \/ \E r \in NanRotatorArgs : NanRotatorAddAssign(r)
    \/ \E r \in NanRotatorArgs : NanRotatorSubAssign(r)
    \/ \E scale \in NanScales : NanRotatorScaleAssign(scale)

SpecNan == InitNan /\ [][NextNan]_vars

\* The object o of the class under test holds a non-finite field, holds a
\* NaN, is the class's default value.
NonFinite(o) ==
    IF conv.class = "quat" THEN Quat_ContainsNaN(o) ELSE Rotator_ContainsNaN(o)
HoldsNaN(o) == \E f \in DOMAIN o : o[f] = NaN
ResetValue == IF conv.class = "quat" THEN IeeeIdentity ELSE IeeeZeroRotator

\* Flag disabled: the check leaves the fields the call wrote.
CheckIsNoOp == ~conv.enabled => conv.val = conv.raw

\* Flag enabled: a checked object with a non-finite field is reset.
CheckResets ==
    (conv.enabled /\ conv.op # "Quat_Normalize" /\ NonFinite(conv.raw))
        => conv.val = ResetValue

\* C24 as stated: with the flag disabled the check changes nothing and an
\* object with a non-finite field still has one after every call; with
\* the flag enabled a checked object with a non-finite field is reset to
\* Identity or to the zero rotator.
C24_NonFiniteSurvivesEveryCall ==
    conv.calls > 0 =>
        /\ CheckIsNoOp
        /\ (~conv.enabled /\ NonFinite(conv.prev)) => NonFinite(conv.val)
        /\ CheckResets

\* C24, amended: as above for the checked calls (DiagnosticCheckNaN, +=,
\* -=, *=, /=); Quat::Normalize with the flag disabled keeps an infinity
\* non-finite but resets a quaternion that holds a NaN to Identity.
C24_NanCheckIsOptIn ==
    conv.calls > 0 =>
        /\ CheckIsNoOp
        /\ (~conv.enabled /\ NonFinite(conv.prev) /\ conv.op # "Quat_Normalize")
               => NonFinite(conv.val)
        /\ (~conv.enabled /\ NonFinite(conv.prev) /\ conv.op = "Quat_Normalize")
               => IF HoldsNaN(conv.prev) THEN conv.val = IeeeIdentity
                  ELSE NonFinite(conv.val)
        /\ CheckResets

\* With the flag disabled an infinity times zero has become a NaN and is
\* still there after the check.
C24_Witness ==
    /\ conv.kind = "nan"
    /\ ~conv.enabled
    /\ conv.op = "Quat_ScaleAssign"
    /\ NonFinite(conv.prev)
    /\ HoldsNaN(conv.val)
    /\ conv.val = conv.raw

=============================================================================
